---- MODULE Spec2Model ----
(***************************************************************************)
(* Model of the Firestore Advanced MCP server (src/index.js): the          *)
(* documentCache object, the Firestore store it fronts, and the            *)
(* firestore_get / firestore_create tool handlers, whose bodies are split  *)
(* at their `await` points so that handlers interleave the way the         *)
(* Node.js event loop lets them.                                           *)
(*                                                                         *)
(* Five specifications are given:                                          *)
(*   Spec       the server: handlers, store and clock;                     *)
(*   SpecCache  the documentCache object alone, its methods called         *)
(*              directly in any order with any key (clear has no caller    *)
(*              in a handler).  Every method is synchronous, so whatever   *)
(*              the handlers do to the cache is one of these sequences.    *)
(*   SpecEviction  the same object with one more entry of room and one     *)
(*              more key, for the order in which set evicts;               *)
(*   SpecNormalizer  the converters convertTimestampsToISO and             *)
(*              convertValueToFirestoreType applied to JavaScript values   *)
(*              held in a heap, and firestore_create with a special field. *)
(*   SpecTools  the four tool handlers (firestore_get,                     *)
(*              firestore_list_collections, firestore_create,              *)
(*              firestore_collection_group_query) called one at a time,    *)
(*              with the failures of the store and of the library.         *)
(***************************************************************************)
EXTENDS Integers, Sequences, FiniteSets, TLC

(***************************************************************************)
(* Bounds of the model.                                                    *)
(***************************************************************************)
\* Handler invocations in a behaviour of Spec.
MaxCalls == 3
\* documentCache method calls in a behaviour of SpecCache.
MaxOps == 4
\* Largest value Date.now() returns; the first reading is 0.
MaxTime == 2
\* documentCache.maxSize is at most MaxMaxSize (it is 500 in the source).
MaxMaxSize == 2
\* documentCache.ttl is at most MaxTtl clock units (it is 60000 ms in the source).
MaxTtl == 1
\* Composite objects wired to each other in an input graph of SpecNormalizer.
MaxObjects == 2
\* Objects nested one in the other in the linear input of SpecNormalizer.
ChainDepth == 6
\* Largest maxDepth passed to convertTimestampsToISO (its default is 20).
MaxDepthArg == 1

(***************************************************************************)
(* Input domains.  Collection names and document ids are strings; ":" is   *)
(* a legal character in both.                                              *)
(***************************************************************************)
Collections == {"a", "a:b"}
Ids == {"c", "b:c"}
\* The documents the handlers of Spec are called on.
DocPaths == {<<"a", "c">>, <<"a", "b:c">>, <<"a:b", "c">>}
Procs == {"p1", "p2"}

\* Documents are flat records of numbers; the ones a client sends as `data`.
DataInputs == {[g |-> 1]}
\* The store before the server starts: these documents exist, holding InitDoc.
InitDoc == [f |-> 0]
InitiallyStored == {<<"a", "c">>, <<"a", "b:c">>}

\* State of one document in the store.
NoDoc == [exists |-> FALSE]
Stored(d) == [exists |-> TRUE, data |-> d]

(***************************************************************************)
(* ES2015 Map, as the sequence of its entries in insertion order.          *)
(***************************************************************************)
MapHas(m, key) == \E i \in 1..Len(m) : m[i].key = key

MapGet(m, key) == m[CHOOSE i \in 1..Len(m) : m[i].key = key]

\* Map.prototype.delete: removes the entry, a no-op if the key is absent.
MapDelete(m, key) == SelectSeq(m, LAMBDA e : e.key # key)

\* Map.prototype.set: an existing key keeps its position, a new one goes last.
MapSet(m, e) ==
  IF MapHas(m, e.key)
    THEN [i \in 1..Len(m) |-> IF m[i].key = e.key THEN e ELSE m[i]]
    ELSE Append(m, e)

MapKeys(m) == {m[i].key : i \in 1..Len(m)}

(***************************************************************************)
(* JavaScript values.  A primitive is a tagged record; a string is the      *)
(* sequence of its characters; an object is held by reference, as the      *)
(* address of its cell in the heap.                                        *)
(***************************************************************************)
JsUndefined == [t |-> "undefined"]
JsNull == [t |-> "null"]
Bool(b) == [t |-> "boolean", v |-> b]
\* An integral number.
Num(n) == [t |-> "number", v |-> n]
\* The number n / d, d > 0.
Fraction(n, d) == [t |-> "number", num |-> n, den |-> d]
Str(chars) == [t |-> "string", chars |-> chars]
Ref(a) == [t |-> "object", addr |-> a]

Digit(k) == <<"0", "1", "2", "3", "4", "5", "6", "7", "8", "9">>[k + 1]

\* Number.prototype.toFixed(2) of n / d, for 0 <= n / d < 10: the decimal
\* string with two fraction digits nearest to the number.  (100 n / d is
\* never half way between two integers for d < 8, so the rounding of ties
\* does not arise within the bounds.)
toFixed2(n, d) ==
  LET c == (200 * n + d) \div (2 * d)
  IN Str(<<Digit(c \div 100), ".", Digit((c \div 10) % 10), Digit(c % 10)>>)

(***************************************************************************)
(* documentCache (src/index.js:238-305).  The object is the record         *)
(* [cache, ttl, maxSize, hitCount, missCount]; a method is an operator     *)
(* from the object, its arguments and the clock reading `t` to the object  *)
(* afterwards (and, for get, the value returned).                          *)
(***************************************************************************)
Null == [null |-> TRUE]
Some(d) == [null |-> FALSE, data |-> d]

\* Mutants of get: the age is never checked; an entry expires as soon as its
\* age reaches ttl; a hit moves the entry to the end of the Map.
get_noExpiry(dc, key, t) ==
  IF ~MapHas(dc.cache, key)
    THEN [dc |-> [dc EXCEPT !.missCount = @ + 1], ret |-> Null]
    ELSE [dc |-> [dc EXCEPT !.hitCount = @ + 1],
          ret |-> Some(MapGet(dc.cache, key).data)]

get_expireAtTtl(dc, key, t) ==
  IF ~MapHas(dc.cache, key)
    THEN [dc |-> [dc EXCEPT !.missCount = @ + 1], ret |-> Null]
    ELSE LET e == MapGet(dc.cache, key) IN
         IF t - e.timestamp >= dc.ttl
           THEN [dc |-> [dc EXCEPT !.cache = MapDelete(@, key),
                                   !.missCount = @ + 1],
                 ret |-> Null]
           ELSE [dc |-> [dc EXCEPT !.hitCount = @ + 1], ret |-> Some(e.data)]

get_promote(dc, key, t) ==
  IF ~MapHas(dc.cache, key)
    THEN [dc |-> [dc EXCEPT !.missCount = @ + 1], ret |-> Null]
    ELSE LET e == MapGet(dc.cache, key) IN
         IF t - e.timestamp > dc.ttl
           THEN [dc |-> [dc EXCEPT !.cache = MapDelete(@, key),
                                   !.missCount = @ + 1],
                 ret |-> Null]
           ELSE [dc |-> [dc EXCEPT !.cache = Append(MapDelete(@, key), e),
                                   !.hitCount = @ + 1],
                 ret |-> Some(e.data)]

\* Mutant of get: an expired entry is deleted without counting a miss.
get_expiredUncounted(dc, key, t) ==
  IF ~MapHas(dc.cache, key)
    THEN [dc |-> [dc EXCEPT !.missCount = @ + 1], ret |-> Null]
    ELSE LET e == MapGet(dc.cache, key) IN
         IF t - e.timestamp > dc.ttl
           THEN [dc |-> [dc EXCEPT !.cache = MapDelete(@, key)], ret |-> Null]
           ELSE [dc |-> [dc EXCEPT !.hitCount = @ + 1], ret |-> Some(e.data)]

get(dc, key, t) ==
  IF ~MapHas(dc.cache, key)
    THEN [dc |-> [dc EXCEPT !.missCount = @ + 1], ret |-> Null]
    ELSE LET e == MapGet(dc.cache, key) IN
         IF t - e.timestamp > dc.ttl
           THEN [dc |-> [dc EXCEPT !.cache = MapDelete(@, key),
                                   !.missCount = @ + 1],
                 ret |-> Null]
           ELSE [dc |-> [dc EXCEPT !.hitCount = @ + 1], ret |-> Some(e.data)]

\* Mutants of set: nothing is evicted; the newest entry is evicted.
set_noEvict(dc, key, data, t) ==
  [dc EXCEPT !.cache = MapSet(@, [key |-> key, data |-> data, timestamp |-> t])]

set_evictNewest(dc, key, data, t) ==
  LET evicted == IF Len(dc.cache) >= dc.maxSize /\ Len(dc.cache) > 0
                   THEN MapDelete(dc.cache, dc.cache[Len(dc.cache)].key)
                   ELSE dc.cache
  IN [dc EXCEPT !.cache = MapSet(evicted,
                                 [key |-> key, data |-> data, timestamp |-> t])]

\* cache.keys().next().value is undefined on an empty Map; delete(undefined)
\* then removes nothing.
set(dc, key, data, t) ==
  LET evicted == IF Len(dc.cache) >= dc.maxSize /\ Len(dc.cache) > 0
                   THEN MapDelete(dc.cache, dc.cache[1].key)
                   ELSE dc.cache
  IN [dc EXCEPT !.cache = MapSet(evicted,
                                 [key |-> key, data |-> data, timestamp |-> t])]

\* Mutant of invalidate: the whole Map is emptied.
invalidate_all(dc, key) == [dc EXCEPT !.cache = <<>>]

invalidate(dc, key) == [dc EXCEPT !.cache = MapDelete(@, key)]

\* Mutant of clear: the counters are kept.
clear_keepCounters(dc) == [dc EXCEPT !.cache = <<>>]

clear(dc) == [dc EXCEPT !.cache = <<>>, !.hitCount = 0, !.missCount = 0]

\* Mutant of getStats: the oldest entry is dropped before the size is read.
getStats_dropOldest(dc) ==
  LET kept == IF dc.cache = <<>> THEN <<>> ELSE Tail(dc.cache)
      totalRequests == dc.hitCount + dc.missCount
      hitRatio == IF totalRequests > 0 THEN <<dc.hitCount, totalRequests>>
                                       ELSE <<0, 1>>
  IN [dc |-> [dc EXCEPT !.cache = kept],
      ret |-> [size |-> Len(kept), maxSize |-> dc.maxSize,
               hitCount |-> dc.hitCount, missCount |-> dc.missCount,
               hitRatio |-> toFixed2(hitRatio[1], hitRatio[2])]]

\* getStats assigns nothing to the object: dc is returned as it was given.
getStats(dc) ==
  LET totalRequests == dc.hitCount + dc.missCount
      hitRatio == IF totalRequests > 0 THEN <<dc.hitCount, totalRequests>>
                                       ELSE <<0, 1>>
  IN [dc |-> dc,
      ret |-> [size |-> Len(dc.cache), maxSize |-> dc.maxSize,
               hitCount |-> dc.hitCount, missCount |-> dc.missCount,
               hitRatio |-> toFixed2(hitRatio[1], hitRatio[2])]]

(***************************************************************************)
(* Helpers of the handlers.                                                *)
(***************************************************************************)
\* `${collection}:${id}`
cacheKey(collection, id) == collection \o ":" \o id

\* The keys the methods of SpecCache are called with.
CacheKeys == {cacheKey(p[1], p[2]) : p \in Collections \X Ids}

\* convertTimestampsToISO on a flat document of numbers: the object branch
\* builds a new record with the same own keys, each number passed through.
convertFlatDocument(d) == [k \in DOMAIN d |-> d[k]]

\* docRef.set(documentData) and docRef.set(documentData, {merge: true}).
StoreSet(old, documentData, merge) ==
  IF merge /\ old.exists
    THEN Stored([k \in DOMAIN old.data \cup DOMAIN documentData |->
                   IF k \in DOMAIN documentData THEN documentData[k]
                                                ELSE old.data[k]])
    ELSE Stored(documentData)

\* What a response built from the store state s shows of a document.
Observable(s) ==
  IF s.exists THEN [exists |-> TRUE, data |-> convertFlatDocument(s.data)]
              ELSE [exists |-> FALSE]

(***************************************************************************)
(* The heap.  A cell is a plain object (its own enumerable properties in   *)
(* creation order), an array, or an instance of one of the Firestore       *)
(* classes.  Property names are atomic; string values are sequences of     *)
(* characters.                                                             *)
(***************************************************************************)
Prop(k, v) == [key |-> k, val |-> v]
Obj(props) == [cls |-> "Object", props |-> props]
Arr(items) == [cls |-> "Array", items |-> items]
\* admin.firestore.Timestamp, by its value in milliseconds since the epoch.
TimestampCell(ms) == [cls |-> "Timestamp", ms |-> ms]
GeoPointCell(lat, lng) ==
  [cls |-> "GeoPoint", latitude |-> lat, longitude |-> lng]
\* admin.firestore.DocumentReference, by the segments of its path.
DocumentReferenceCell(segments) ==
  [cls |-> "DocumentReference", segments |-> segments]

\* Object.prototype.hasOwnProperty.call(data, k), and data[k].
HasOwn(cell, k) ==
  cell.cls = "Object" /\ \E i \in 1..Len(cell.props) : cell.props[i].key = k

GetProp(cell, k) ==
  IF HasOwn(cell, k)
    THEN cell.props[CHOOSE i \in 1..Len(cell.props) : cell.props[i].key = k].val
    ELSE JsUndefined

\* ToBoolean.
Truthy(v) ==
  CASE v.t = "undefined" -> FALSE
    [] v.t = "null" -> FALSE
    [] v.t = "boolean" -> v.v
    [] v.t = "number" -> v.v # 0
    [] v.t = "string" -> v.chars # <<>>
    [] OTHER -> TRUE

\* String.prototype.includes for a one-character argument, split and join.
includes(chars, c) == \E i \in 1..Len(chars) : chars[i] = c

RECURSIVE split(_, _)
split(chars, sep) ==
  IF ~includes(chars, sep)
    THEN <<chars>>
    ELSE LET i == CHOOSE k \in 1..Len(chars) :
                    chars[k] = sep /\ \A j \in 1..(k - 1) : chars[j] # sep
         IN <<SubSeq(chars, 1, i - 1)>>
              \o split(SubSeq(chars, i + 1, Len(chars)), sep)

RECURSIVE join(_, _)
join(parts, sep) ==
  IF Len(parts) = 0 THEN <<>>
  ELSE IF Len(parts) = 1 THEN parts[1]
  ELSE parts[1] \o <<sep>> \o join(Tail(parts), sep)

\* Date.prototype.toISOString for a time within the first minute of the epoch.
toISOString(ms) ==
  LET s == ms \div 1000
      f == ms % 1000
  IN <<"1", "9", "7", "0", "-", "0", "1", "-", "0", "1", "T",
       "0", "0", ":", "0", "0", ":">>
       \o <<Digit(s \div 10), Digit(s % 10), ".", Digit(f \div 100),
            Digit((f \div 10) % 10), Digit(f % 10), "Z">>

(***************************************************************************)
(* convertTimestampsToISO (src/index.js:345-421).  The state threaded      *)
(* through the recursion is st = [heap, visited, trace]: the heap (the     *)
(* function creates objects), the WeakMap visitedObjects as the set of     *)
(* addresses it holds, and, as a history, the sequence of the addresses    *)
(* marked so far.  The operator returns [st, ret].  depth and maxDepth are *)
(* passed along as in the source, which compares them nowhere.             *)
(***************************************************************************)
CircularMarker ==
  Str(<<"[", "R", "é", "f", "é", "r", "e", "n", "c", "e", " ",
        "c", "i", "r", "c", "u", "l", "a", "i", "r", "e", "]">>)

alloc(st, cell) ==
  [st |-> [st EXCEPT !.heap = Append(@, cell)], ret |-> Ref(Len(st.heap) + 1)]

\* visitedObjects.set(data, true)
markVisited(st, a) ==
  [st EXCEPT !.visited = @ \cup {a}, !.trace = Append(@, a)]

\* Mutant of referenceRecord: `path` holds the id of the document.
referenceRecord_pathIsId(path, id, collection) ==
  Obj(<<Prop("type", Str(<<"r", "e", "f", "e", "r", "e", "n", "c", "e">>)),
        Prop("path", Str(id)),
        Prop("id", Str(id)),
        Prop("collection", Str(collection)),
        Prop("_isDocumentReference", Bool(TRUE))>>)

\* The record built for a reference at lines 371-377 and 394-400.
referenceRecord(path, id, collection) ==
  Obj(<<Prop("type", Str(<<"r", "e", "f", "e", "r", "e", "n", "c", "e">>)),
        Prop("path", Str(path)),
        Prop("id", Str(id)),
        Prop("collection", Str(collection)),
        Prop("_isDocumentReference", Bool(TRUE))>>)

\* Line 381: the object carries a truthy _isDocumentReference.
alreadyConverted(cell) == Truthy(GetProp(cell, "_isDocumentReference"))

\* Lines 386-387: data.path is a string that contains "/", on a non-array.
hasReferencePath(cell) ==
  /\ cell.cls # "Array"
  /\ GetProp(cell, "path").t = "string"
  /\ includes(GetProp(cell, "path").chars, "/")

RECURSIVE convertTimestampsToISO(_, _, _, _)
RECURSIVE convertEach(_, _, _, _)

\* Mutants of convertEach: each element is converted with the visited set its
\* container had (a copy per child instead of the shared WeakMap); the
\* converted elements come out in reverse order.
convertEach_visitedByValue(st, vals, depth, maxDepth) ==
  IF vals = <<>>
    THEN [st |-> st, rets |-> <<>>]
    ELSE LET first == convertTimestampsToISO(st, Head(vals), depth, maxDepth)
             rest == convertEach([first.st EXCEPT !.visited = st.visited],
                                 Tail(vals), depth, maxDepth)
         IN [st |-> rest.st, rets |-> <<first.ret>> \o rest.rets]

convertEach_reversed(st, vals, depth, maxDepth) ==
  IF vals = <<>>
    THEN [st |-> st, rets |-> <<>>]
    ELSE LET first == convertTimestampsToISO(st, Head(vals), depth, maxDepth)
             rest == convertEach(first.st, Tail(vals), depth, maxDepth)
         IN [st |-> rest.st, rets |-> rest.rets \o <<first.ret>>]

\* The calls made for the elements of an array (data.map, line 406) or the
\* own properties of an object (for..in, lines 412-416), in order.
convertEach(st, vals, depth, maxDepth) ==
  IF vals = <<>>
    THEN [st |-> st, rets |-> <<>>]
    ELSE LET first == convertTimestampsToISO(st, Head(vals), depth, maxDepth)
             rest == convertEach(first.st, Tail(vals), depth, maxDepth)
         IN [st |-> rest.st, rets |-> <<first.ret>> \o rest.rets]

\* Mutant of convertTimestampsToISO: no test for an object already converted
\* (lines 381-383 removed).
convertTimestampsToISO_retag(st, data, depth, maxDepth) ==
  IF data.t # "object" THEN [st |-> st, ret |-> data]
  ELSE IF data.addr \in st.visited THEN [st |-> st, ret |-> CircularMarker]
  ELSE
    LET cell == st.heap[data.addr]
        s1 == markVisited(st, data.addr)
    IN CASE cell.cls = "Timestamp" ->
              [st |-> s1, ret |-> Str(toISOString(cell.ms))]
         [] cell.cls = "GeoPoint" ->
              alloc(s1, Obj(<<Prop("latitude", cell.latitude),
                              Prop("longitude", cell.longitude)>>))
         [] cell.cls = "DocumentReference" ->
              alloc(s1, referenceRecord(join(cell.segments, "/"),
                                        cell.segments[Len(cell.segments)],
                                        cell.segments[Len(cell.segments) - 1]))
         [] OTHER ->
              IF hasReferencePath(cell)
                THEN LET path == GetProp(cell, "path").chars
                         pathParts == split(path, "/")
                     IN alloc(s1, referenceRecord(path,
                                                  pathParts[Len(pathParts)],
                                                  pathParts[Len(pathParts) - 1]))
              ELSE IF cell.cls = "Array"
                THEN LET r == convertEach(s1, cell.items, depth + 1, maxDepth)
                     IN alloc(r.st, Arr(r.rets))
              ELSE LET r == convertEach(s1,
                                        [i \in 1..Len(cell.props) |->
                                           cell.props[i].val],
                                        depth + 1, maxDepth)
                   IN alloc(r.st,
                            Obj([i \in 1..Len(cell.props) |->
                                   Prop(cell.props[i].key, r.rets[i])]))

convertTimestampsToISO(st, data, depth, maxDepth) ==
  IF data.t # "object" THEN [st |-> st, ret |-> data]
  ELSE IF data.addr \in st.visited THEN [st |-> st, ret |-> CircularMarker]
  ELSE
    LET cell == st.heap[data.addr]
        s1 == markVisited(st, data.addr)
    IN CASE cell.cls = "Timestamp" ->
              [st |-> s1, ret |-> Str(toISOString(cell.ms))]
         [] cell.cls = "GeoPoint" ->
              alloc(s1, Obj(<<Prop("latitude", cell.latitude),
                              Prop("longitude", cell.longitude)>>))
         [] cell.cls = "DocumentReference" ->
              alloc(s1, referenceRecord(join(cell.segments, "/"),
                                        cell.segments[Len(cell.segments)],
                                        cell.segments[Len(cell.segments) - 1]))
         [] OTHER ->
              IF alreadyConverted(cell)
                THEN [st |-> s1, ret |-> data]
              ELSE IF hasReferencePath(cell)
                THEN LET path == GetProp(cell, "path").chars
                         pathParts == split(path, "/")
                     IN alloc(s1, referenceRecord(path,
                                                  pathParts[Len(pathParts)],
                                                  pathParts[Len(pathParts) - 1]))
              ELSE IF cell.cls = "Array"
                THEN LET r == convertEach(s1, cell.items, depth + 1, maxDepth)
                     IN alloc(r.st, Arr(r.rets))
              ELSE LET r == convertEach(s1,
                                        [i \in 1..Len(cell.props) |->
                                           cell.props[i].val],
                                        depth + 1, maxDepth)
                   IN alloc(r.st,
                            Obj([i \in 1..Len(cell.props) |->
                                   Prop(cell.props[i].key, r.rets[i])]))

(***************************************************************************)
(* Strings and numbers of JavaScript, as far as convertValueToFirestoreType *)
(* uses them.  The numbers are integers or NaN; the strings given to       *)
(* Number() and to JSON.parse hold no fraction, exponent or escape.        *)
(***************************************************************************)
NaN == [t |-> "number", nan |-> TRUE]
isNaN(v) == v.t = "number" /\ "nan" \in DOMAIN v

DigitChars == {Digit(k) : k \in 0..9}
DigitValue(c) == CHOOSE k \in 0..9 : Digit(k) = c
IsDigits(chars) ==
  chars # <<>> /\ \A i \in 1..Len(chars) : chars[i] \in DigitChars

RECURSIVE DigitsValue(_)
DigitsValue(chars) ==
  IF chars = <<>> THEN 0
  ELSE 10 * DigitsValue(SubSeq(chars, 1, Len(chars) - 1))
         + DigitValue(chars[Len(chars)])

RECURSIVE DigitsOf(_)
DigitsOf(n) ==
  IF n < 10 THEN <<Digit(n)>> ELSE DigitsOf(n \div 10) \o <<Digit(n % 10)>>

\* String.prototype.trim, for the space character.
RECURSIVE trim(_)
trim(chars) ==
  IF chars = <<>> THEN chars
  ELSE IF Head(chars) = " " THEN trim(Tail(chars))
  ELSE IF chars[Len(chars)] = " " THEN trim(SubSeq(chars, 1, Len(chars) - 1))
  ELSE chars

\* Number(value) of a string: white space is trimmed, the empty string is 0,
\* an optionally signed run of digits is its value, anything else is NaN.
StringToNumber(chars) ==
  LET s == trim(chars)
  IN IF s = <<>> THEN Num(0)
     ELSE IF IsDigits(s) THEN Num(DigitsValue(s))
     ELSE IF Head(s) = "-" /\ IsDigits(Tail(s)) THEN Num(0 - DigitsValue(Tail(s)))
     ELSE IF Head(s) = "+" /\ IsDigits(Tail(s)) THEN Num(DigitsValue(Tail(s)))
     ELSE NaN

\* String(value) of a number.
NumberToString(n) ==
  IF n < 0 THEN <<"-">> \o DigitsOf(0 - n) ELSE DigitsOf(n)

UpperCase ==
  <<"A", "B", "C", "D", "E", "F", "G", "H", "I", "J", "K", "L", "M",
    "N", "O", "P", "Q", "R", "S", "T", "U", "V", "W", "X", "Y", "Z">>
LowerCase ==
  <<"a", "b", "c", "d", "e", "f", "g", "h", "i", "j", "k", "l", "m",
    "n", "o", "p", "q", "r", "s", "t", "u", "v", "w", "x", "y", "z">>

\* String.prototype.toLowerCase.
toLowerCase(chars) ==
  [i \in 1..Len(chars) |->
     IF \E k \in 1..26 : UpperCase[k] = chars[i]
       THEN LowerCase[CHOOSE k \in 1..26 : UpperCase[k] = chars[i]]
       ELSE chars[i]]

\* Whether a string has the format of toISOString (within the first minute
\* of the epoch), and whether it holds a digit.
IsISODate(chars) ==
  /\ Len(chars) = 24
  /\ SubSeq(chars, 1, 17) = <<"1", "9", "7", "0", "-", "0", "1", "-", "0", "1",
                              "T", "0", "0", ":", "0", "0", ":">>
  /\ IsDigits(SubSeq(chars, 18, 19))
  /\ DigitsValue(SubSeq(chars, 18, 19)) < 60
  /\ chars[20] = "."
  /\ IsDigits(SubSeq(chars, 21, 23))
  /\ chars[24] = "Z"

HasDigit(chars) == \E i \in 1..Len(chars) : chars[i] \in DigitChars

\* new Date(value).getTime() of a string: the time of a string in ISO
\* format, NaN for a string without a digit (it names no day), and for any
\* other string what the engine's own date parser makes of it, `legacy`, a
\* time or NaN.
DateParse(chars, legacy) ==
  IF IsISODate(chars)
    THEN Num(1000 * DigitsValue(SubSeq(chars, 18, 19))
               + DigitsValue(SubSeq(chars, 21, 23)))
  ELSE IF ~HasDigit(chars) THEN NaN
  ELSE legacy

\* The outcomes of the engine's date parser for a string not in ISO format.
LegacyDates == {NaN, Num(0)}

(***************************************************************************)
(* The Firestore client library (external to the repository), as far as    *)
(* convertValueToFirestoreType calls it.  A call returns Returns(v) or     *)
(* Throws: the constructors validate their arguments and throw an Error    *)
(* for an argument that is not acceptable.                                 *)
(***************************************************************************)
Throws == [threw |-> TRUE]
Returns(v) == [threw |-> FALSE, v |-> v]

\* admin.firestore.Timestamp.fromMillis(ms), and fromDate(date) for a date
\* of that time: a Timestamp, an Error for NaN (the time of an invalid Date).
TimestampFromMillis(ms) ==
  IF ms.t # "number" \/ isNaN(ms) THEN Throws
  ELSE Returns(TimestampCell(ms.v))

\* new admin.firestore.GeoPoint(latitude, longitude): both must be numbers,
\* the latitude within [-90, 90] and the longitude within [-180, 180].
GeoPointNew(latitude, longitude) ==
  IF /\ latitude.t = "number" /\ ~isNaN(latitude)
     /\ longitude.t = "number" /\ ~isNaN(longitude)
     /\ latitude.v >= -90 /\ latitude.v <= 90
     /\ longitude.v >= -180 /\ longitude.v <= 180
    THEN Returns(GeoPointCell(latitude, longitude))
    ELSE Throws

\* admin.firestore().doc(documentPath): the path must be a non-empty string
\* without "//" and have an even number of segments.
doc(documentPath) ==
  IF documentPath.t # "string" \/ documentPath.chars = <<>> THEN Throws
  ELSE LET chars == documentPath.chars
           segments == SelectSeq(split(chars, "/"), LAMBDA s : s # <<>>)
       IN IF \E i \in 1..(Len(chars) - 1) :
               chars[i] = "/" /\ chars[i + 1] = "/"
            THEN Throws
          ELSE IF Len(segments) = 0 \/ Len(segments) % 2 = 1 THEN Throws
          ELSE Returns(DocumentReferenceCell(segments))

(***************************************************************************)
(* JSON.parse, for texts of null, true, false, integers, strings without   *)
(* escapes, arrays and objects, with spaces between the tokens.  The       *)
(* parser is a machine over configurations [mode, st, i, stack, val]: st   *)
(* is the state with the objects created so far, i the index of the next   *)
(* character, stack the arrays and objects still open (innermost last,     *)
(* each with the items or properties read so far), val the value just      *)
(* read.  The modes are "value" (a value is expected at i), "key" (a       *)
(* property name is expected), "after" (val has been read), "done" and     *)
(* "failed".                                                               *)
(***************************************************************************)
ParseFailed == [mode |-> "failed"]

RECURSIVE skipSpace(_, _)
skipSpace(s, i) ==
  IF i <= Len(s) /\ s[i] = " " THEN skipSpace(s, i + 1) ELSE i

startsWith(s, i, word) ==
  i + Len(word) - 1 <= Len(s) /\ SubSeq(s, i, i + Len(word) - 1) = word

RECURSIVE digitsEnd(_, _)
digitsEnd(s, i) ==
  IF i <= Len(s) /\ s[i] \in DigitChars THEN digitsEnd(s, i + 1) ELSE i

\* The index of the quote that closes the string whose text starts at i, 0
\* if there is none.
RECURSIVE stringEnd(_, _)
stringEnd(s, i) ==
  IF i > Len(s) \/ s[i] = "\\" THEN 0
  ELSE IF s[i] = "\"" THEN i
  ELSE stringEnd(s, i + 1)

\* The property names that occur in a text, by their characters; a name of
\* one character is that character.
PropertyNames ==
  <<[name |-> "latitude", chars |-> <<"l", "a", "t", "i", "t", "u", "d", "e">>],
    [name |-> "longitude",
     chars |-> <<"l", "o", "n", "g", "i", "t", "u", "d", "e">>],
    [name |-> "path", chars |-> <<"p", "a", "t", "h">>],
    [name |-> "value", chars |-> <<"v", "a", "l", "u", "e">>],
    [name |-> "foo", chars |-> <<"f", "o", "o">>]>>

PropertyName(chars) ==
  IF \E k \in 1..Len(PropertyNames) : PropertyNames[k].chars = chars
    THEN PropertyNames[CHOOSE k \in 1..Len(PropertyNames) :
                         PropertyNames[k].chars = chars].name
    ELSE chars[1]

\* obj[k] = v on the properties of an object: an existing property keeps its
\* place, a new one goes last.
SetProp(props, k, v) ==
  IF \E i \in 1..Len(props) : props[i].key = k
    THEN [i \in 1..Len(props) |->
            IF props[i].key = k THEN Prop(k, v) ELSE props[i]]
    ELSE Append(props, Prop(k, v))

\* The configuration after the value v, which ends before index i.
AfterValue(c, st, v, i) ==
  [c EXCEPT !.mode = "after", !.st = st, !.val = v, !.i = i]

\* mode "value": read a literal, a string or a number, or open an array or
\* an object.
parseValue(s, c) ==
  LET i == skipSpace(s, c.i) IN
  IF i > Len(s) THEN ParseFailed
  ELSE IF startsWith(s, i, <<"n", "u", "l", "l">>)
    THEN AfterValue(c, c.st, JsNull, i + 4)
  ELSE IF startsWith(s, i, <<"t", "r", "u", "e">>)
    THEN AfterValue(c, c.st, Bool(TRUE), i + 4)
  ELSE IF startsWith(s, i, <<"f", "a", "l", "s", "e">>)
    THEN AfterValue(c, c.st, Bool(FALSE), i + 5)
  ELSE IF s[i] = "\""
    THEN LET e == stringEnd(s, i + 1)
         IN IF e = 0 THEN ParseFailed
            ELSE AfterValue(c, c.st, Str(SubSeq(s, i + 1, e - 1)), e + 1)
  ELSE IF s[i] \in DigitChars \cup {"-"}
    THEN LET k == IF s[i] = "-" THEN i + 1 ELSE i
             e == IF k <= Len(s) /\ s[k] = "0" THEN k + 1 ELSE digitsEnd(s, k)
         IN IF e = k THEN ParseFailed
            ELSE AfterValue(c, c.st,
                            Num((IF k = i THEN 1 ELSE -1)
                                  * DigitsValue(SubSeq(s, k, e - 1))),
                            e)
  ELSE IF s[i] = "["
    THEN LET j == skipSpace(s, i + 1)
         IN IF j <= Len(s) /\ s[j] = "]"
              THEN LET a == alloc(c.st, Arr(<<>>))
                   IN AfterValue(c, a.st, a.ret, j + 1)
              ELSE [c EXCEPT !.i = i + 1,
                             !.stack = Append(@, [kind |-> "array",
                                                  items |-> <<>>])]
  ELSE IF s[i] = "{"
    THEN LET j == skipSpace(s, i + 1)
         IN IF j <= Len(s) /\ s[j] = "}"
              THEN LET a == alloc(c.st, Obj(<<>>))
                   IN AfterValue(c, a.st, a.ret, j + 1)
              ELSE [c EXCEPT !.mode = "key", !.i = i + 1,
                             !.stack = Append(@, [kind |-> "object",
                                                  props |-> <<>>,
                                                  key |-> ""])]
  ELSE ParseFailed

\* mode "key": read the name of a member of the innermost object and the
\* colon after it.
parseKey(s, c) ==
  LET k == skipSpace(s, c.i) IN
  IF k > Len(s) \/ s[k] # "\"" THEN ParseFailed
  ELSE LET e == stringEnd(s, k + 1) IN
       IF e = 0 \/ e = k + 1 THEN ParseFailed
       ELSE LET j == skipSpace(s, e + 1) IN
            IF j > Len(s) \/ s[j] # ":" THEN ParseFailed
            ELSE [c EXCEPT !.mode = "value", !.i = j + 1,
                           !.stack[Len(c.stack)].key =
                              PropertyName(SubSeq(s, k + 1, e - 1))]

\* mode "after": the text is read when nothing is open; otherwise val goes
\* into the innermost array or object, which the next character continues
\* or closes.
parseAfter(s, c) ==
  IF c.stack = <<>> THEN [c EXCEPT !.mode = "done"]
  ELSE LET j == skipSpace(s, c.i)
           top == c.stack[Len(c.stack)]
           rest == SubSeq(c.stack, 1, Len(c.stack) - 1)
       IN IF j > Len(s) THEN ParseFailed
          ELSE IF top.kind = "array"
            THEN LET items == Append(top.items, c.val) IN
                 IF s[j] = ","
                   THEN [c EXCEPT !.mode = "value", !.i = j + 1,
                                  !.stack[Len(c.stack)].items = items]
                 ELSE IF s[j] = "]"
                   THEN LET a == alloc(c.st, Arr(items))
                        IN [mode |-> "after", st |-> a.st, i |-> j + 1,
                            stack |-> rest, val |-> a.ret]
                 ELSE ParseFailed
          ELSE LET props == SetProp(top.props, top.key, c.val) IN
               IF s[j] = ","
                 THEN [c EXCEPT !.mode = "key", !.i = j + 1,
                                !.stack[Len(c.stack)].props = props]
               ELSE IF s[j] = "}"
                 THEN LET a == alloc(c.st, Obj(props))
                      IN [mode |-> "after", st |-> a.st, i |-> j + 1,
                          stack |-> rest, val |-> a.ret]
               ELSE ParseFailed

\* The machine run from the configuration c until it is done or has failed.
RECURSIVE parseRun(_, _)
parseRun(s, c) ==
  IF c.mode \in {"done", "failed"} THEN c
  ELSE parseRun(s, CASE c.mode = "value" -> parseValue(s, c)
                     [] c.mode = "key" -> parseKey(s, c)
                     [] c.mode = "after" -> parseAfter(s, c))

\* Mutant of JSONparse: every text is a SyntaxError.
JSONparse_syntaxError(st, chars) == [threw |-> TRUE]

\* JSON.parse(text): the value, or a SyntaxError when the text is not one
\* value; the objects of the value are created in st.
JSONparse(st, chars) ==
  LET r == parseRun(chars, [mode |-> "value", st |-> st, i |-> 1,
                            stack |-> <<>>, val |-> JsUndefined])
  IN IF r.mode = "done" /\ skipSpace(chars, r.i) > Len(chars)
       THEN [threw |-> FALSE, st |-> r.st, ret |-> r.val]
       ELSE [threw |-> TRUE]

(***************************************************************************)
(* convertValueToFirestoreType (src/index.js:435-543).  The operator takes *)
(* the state st = [heap, legacyDate] (the heap, and what the engine's date  *)
(* parser gives for a string that is not in ISO format) and returns        *)
(* [st, threw, ret]: the heap afterwards, whether an exception left the    *)
(* function, and the value returned when none did.                         *)
(***************************************************************************)
\* A Date instance, by its time value, a number or NaN (no argument of a
\* tool holds one).
DateCell(ms) == [cls |-> "Date", ms |-> ms]

\* `k in value` and value[k] for an object: own properties of a plain
\* object, the accessors of the Firestore classes.
HasIn(cell, k) ==
  CASE cell.cls = "Object" -> HasOwn(cell, k)
    [] cell.cls = "GeoPoint" -> k \in {"latitude", "longitude"}
    [] cell.cls = "DocumentReference" -> k \in {"path", "id"}
    [] OTHER -> FALSE

Get(cell, k) ==
  CASE cell.cls = "Object" -> GetProp(cell, k)
    [] cell.cls = "GeoPoint" /\ k = "latitude" -> cell.latitude
    [] cell.cls = "GeoPoint" /\ k = "longitude" -> cell.longitude
    [] cell.cls = "DocumentReference" /\ k = "path" ->
         Str(join(cell.segments, "/"))
    [] cell.cls = "DocumentReference" /\ k = "id" ->
         Str(cell.segments[Len(cell.segments)])
    [] OTHER -> JsUndefined

\* String(value): an array is its elements joined by commas (null and
\* undefined elements are empty), any other object is "[object Object]".
RECURSIVE JsString(_, _)
JsString(hp, v) ==
  CASE v.t = "undefined" -> <<"u", "n", "d", "e", "f", "i", "n", "e", "d">>
    [] v.t = "null" -> <<"n", "u", "l", "l">>
    [] v.t = "boolean" ->
         IF v.v THEN <<"t", "r", "u", "e">> ELSE <<"f", "a", "l", "s", "e">>
    [] v.t = "number" ->
         IF isNaN(v) THEN <<"N", "a", "N">> ELSE NumberToString(v.v)
    [] v.t = "string" -> v.chars
    [] v.t = "object" ->
         IF hp[v.addr].cls = "Array"
           THEN join([i \in 1..Len(hp[v.addr].items) |->
                        IF hp[v.addr].items[i].t \in {"null", "undefined"}
                          THEN <<>>
                          ELSE JsString(hp, hp[v.addr].items[i])],
                     ",")
           ELSE <<"[", "o", "b", "j", "e", "c", "t", " ",
                  "O", "b", "j", "e", "c", "t", "]">>

looksLikeDocumentReference(value) ==
  IF value.t # "string" THEN FALSE
  ELSE LET parts == split(value.chars, "/") IN Len(parts) >= 2

\* The values of `type`: the ten the switch names, and "auto" for any other
\* string (the default branch).
Types ==
  {"timestamp", "geopoint", "reference", "array", "map", "object",
   "boolean", "number", "string", "null", "auto"}

convertValueToFirestoreType(st, value, type) ==
  LET Ret(v) == [st |-> st, threw |-> FALSE, ret |-> v]
      \* The instance a library call returns, or the exception it throws.
      New(r) == IF r.threw THEN [st |-> st, threw |-> TRUE]
                ELSE LET a == alloc(st, r.v)
                     IN [st |-> a.st, threw |-> FALSE, ret |-> a.ret]
      Created(s, c) == LET a == alloc(s, c)
                       IN [st |-> a.st, threw |-> FALSE, ret |-> a.ret]
      isObject == value.t = "object"
      cell == st.heap[value.addr]
  IN
  IF value.t \in {"null", "undefined"} THEN Ret(JsNull)
  ELSE
  CASE type = "timestamp" ->
         IF value.t = "string"
           THEN New(TimestampFromMillis(DateParse(value.chars, st.legacyDate)))
         ELSE IF isObject /\ cell.cls = "Date"
           THEN New(TimestampFromMillis(cell.ms))
         ELSE IF value.t = "number" THEN New(TimestampFromMillis(value))
         ELSE Ret(value)
    [] type = "geopoint" ->
         IF isObject /\ HasIn(cell, "latitude") /\ HasIn(cell, "longitude")
           THEN New(GeoPointNew(Get(cell, "latitude"), Get(cell, "longitude")))
           ELSE Ret(value)
    [] type = "reference" ->
         IF value.t = "string" THEN New(doc(value))
         ELSE IF isObject /\ Truthy(Get(cell, "path"))
           THEN New(doc(Get(cell, "path")))
         ELSE Ret(value)
    [] type = "array" ->
         IF isObject /\ cell.cls = "Array" THEN Ret(value)
         ELSE IF value.t = "string"
           THEN LET p == JSONparse(st, value.chars)
                IN IF p.threw THEN Created(st, Arr(<<value>>))
                   ELSE IF p.ret.t = "object" /\ p.st.heap[p.ret.addr].cls = "Array"
                     THEN [st |-> p.st, threw |-> FALSE, ret |-> p.ret]
                   ELSE Created(p.st, Arr(<<value>>))
         ELSE Created(st, Arr(<<value>>))
    [] type \in {"map", "object"} ->
         IF isObject THEN Ret(value)
         ELSE IF value.t = "string"
           THEN LET p == JSONparse(st, value.chars)
                IN IF p.threw THEN Created(st, Obj(<<Prop("value", value)>>))
                   ELSE [st |-> p.st, threw |-> FALSE, ret |-> p.ret]
         ELSE Created(st, Obj(<<Prop("value", value)>>))
    [] type = "boolean" ->
         IF value.t = "boolean" THEN Ret(value)
         ELSE IF value.t = "string"
                   /\ toLowerCase(value.chars) = <<"t", "r", "u", "e">>
           THEN Ret(Bool(TRUE))
         ELSE IF value.t = "string"
                   /\ toLowerCase(value.chars) = <<"f", "a", "l", "s", "e">>
           THEN Ret(Bool(FALSE))
         ELSE Ret(Bool(Truthy(value)))
    [] type = "number" ->
         IF value.t = "number" THEN Ret(value)
         ELSE IF value.t = "string" /\ ~isNaN(StringToNumber(value.chars))
           THEN Ret(StringToNumber(value.chars))
         ELSE Ret(value)
    [] type = "string" -> Ret(Str(JsString(st.heap, value)))
    [] type = "null" -> Ret(JsNull)
    [] OTHER ->
         IF isObject /\ cell.cls = "Date"
           THEN New(TimestampFromMillis(cell.ms))
         ELSE IF isObject /\ HasIn(cell, "latitude") /\ HasIn(cell, "longitude")
           THEN New(GeoPointNew(Get(cell, "latitude"), Get(cell, "longitude")))
         ELSE IF isObject
                   /\ (Truthy(Get(cell, "_isDocumentReference"))
                         \/ (Truthy(Get(cell, "path"))
                               /\ Get(cell, "path").t = "string"))
           THEN New(doc(Get(cell, "path")))
         ELSE IF value.t = "string" /\ looksLikeDocumentReference(value)
           THEN New(doc(value))
         ELSE Ret(value)

(***************************************************************************)
(* handleMissingIndexError (src/index.js:546-593).  An Error object is the *)
(* record of its message; the texts are sequences of characters.           *)
(***************************************************************************)
Error(message) == [cls |-> "Error", message |-> Str(message)]

\* String.prototype.includes for a text.
includesText(chars, word) ==
  \E i \in 1..(Len(chars) - Len(word) + 1) :
    SubSeq(chars, i, i + Len(word) - 1) = word

RequiresAnIndex ==
  <<"r", "e", "q", "u", "i", "r", "e", "s", " ", "a", "n", " ", "i", "n",
    "d", "e", "x">>

NoMatchingIndexFound ==
  <<"n", "o", " ", "m", "a", "t", "c", "h", "i", "n", "g", " ", "i", "n",
    "d", "e", "x", " ", "f", "o", "u", "n", "d">>

NeedsIndex ==
  <<"n", "e", "e", "d", "s", " ", "i", "n", "d", "e", "x">>

ConsoleUrlPrefix ==
  <<"h", "t", "t", "p", "s", ":", "/", "/", "c", "o", "n", "s", "o", "l",
    "e", ".", "f", "i", "r", "e", "b", "a", "s", "e", ".", "g", "o", "o",
    "g", "l", "e", ".", "c", "o", "m", "/">>

WhiteSpace == {" ", "\n", "\t", "\r"}

\* The index after the run of characters other than white space that starts
\* at i.
RECURSIVE nonSpaceEnd(_, _)
nonSpaceEnd(s, i) ==
  IF i <= Len(s) /\ s[i] \notin WhiteSpace THEN nonSpaceEnd(s, i + 1) ELSE i

\* errorMessage.match(/https:\/\/console\.firebase\.google\.com\/[^\s]+/):
\* the first place where the prefix is followed by a character that is no
\* white space, up to the next white space; null when there is none.
matchConsoleUrl(s) ==
  LET n == Len(ConsoleUrlPrefix)
      starts == {i \in 1..(Len(s) - n) :
                   /\ SubSeq(s, i, i + n - 1) = ConsoleUrlPrefix
                   /\ s[i + n] \notin WhiteSpace}
  IN IF starts = {} THEN JsNull
     ELSE LET i == CHOOSE k \in starts : \A j \in starts : k <= j
          IN Str(SubSeq(s, i, nonSpaceEnd(s, i + n) - 1))

CollectionGroupQuery ==
  <<"C", "o", "l", "l", "e", "c", "t", "i", "o", "n", " ", "G", "r", "o",
    "u", "p", " ", "Q", "u", "e", "r", "y">>

CollectionQuery ==
  <<"C", "o", "l", "l", "e", "c", "t", "i", "o", "n", " ", "Q", "u", "e",
    "r", "y">>

MissingIndexMessage ==
  <<"C", "e", "t", "t", "e", " ", "r", "e", "q", "u", "ê", "t", "e", " ",
    "c", "o", "m", "p", "l", "e", "x", "e", " ", "n", "é", "c", "e", "s",
    "s", "i", "t", "e", " ", "u", "n", " ", "i", "n", "d", "e", "x", " ",
    "s", "p", "é", "c", "i", "a", "l", ".", " ">>

\* The instructions of lines 564-567, around the URL.
VisitBefore ==
  <<"P", "o", "u", "r", " ", "r", "é", "s", "o", "u", "d", "r", "e", " ",
    "c", "e", " ", "p", "r", "o", "b", "l", "è", "m", "e", " ", ":", " ",
    "\n", "1", ".", " ", "V", "i", "s", "i", "t", "e", "z", " ">>

VisitAfter ==
  <<"\n", "2", ".", " ", "C", "o", "n", "n", "e", "c", "t", "e", "z", "-",
    "v", "o", "u", "s", " ", "à", " ", "v", "o", "t", "r", "e", " ", "p",
    "r", "o", "j", "e", "t", " ", "F", "i", "r", "e", "b", "a", "s", "e",
    "\n", "3", ".", " ", "C", "l", "i", "q", "u", "e", "z", " ", "s", "u",
    "r", " ", "\"", "C", "r", "é", "e", "r", " ", "i", "n", "d", "e", "x",
    "\"", " ", "p", "o", "u", "r", " ", "g", "é", "n", "é", "r", "e", "r",
    " ", "l", "'", "i", "n", "d", "e", "x", " ", "m", "a", "n", "q", "u",
    "a", "n", "t">>

\* The instructions of lines 569-574, around the name of the collection.
ConsoleBefore ==
  <<"P", "o", "u", "r", " ", "r", "é", "s", "o", "u", "d", "r", "e", " ",
    "c", "e", " ", "p", "r", "o", "b", "l", "è", "m", "e", " ", ":", "\n",
    "1", ".", " ", "A", "c", "c", "é", "d", "e", "z", " ", "à", " ", "l",
    "a", " ", "c", "o", "n", "s", "o", "l", "e", " ", "F", "i", "r", "e",
    "b", "a", "s", "e", " ", ":", " ", "h", "t", "t", "p", "s", ":", "/",
    "/", "c", "o", "n", "s", "o", "l", "e", ".", "f", "i", "r", "e", "b",
    "a", "s", "e", ".", "g", "o", "o", "g", "l", "e", ".", "c", "o", "m",
    "/", "\n", "2", ".", " ", "S", "é", "l", "e", "c", "t", "i", "o", "n",
    "n", "e", "z", " ", "v", "o", "t", "r", "e", " ", "p", "r", "o", "j",
    "e", "t", "\n", "3", ".", " ", "D", "a", "n", "s", " ", "l", "e", " ",
    "m", "e", "n", "u", " ", "d", "e", " ", "g", "a", "u", "c", "h", "e",
    ",", " ", "c", "l", "i", "q", "u", "e", "z", " ", "s", "u", "r", " ",
    "\"", "F", "i", "r", "e", "s", "t", "o", "r", "e", " ", "D", "a", "t",
    "a", "b", "a", "s", "e", "\"", "\n", "4", ".", " ", "A", "l", "l", "e",
    "z", " ", "d", "a", "n", "s", " ", "l", "'", "o", "n", "g", "l", "e",
    "t", " ", "\"", "I", "n", "d", "e", "x", "e", "s", "\"", "\n", "5", ".",
    " ", "C", "l", "i", "q", "u", "e", "z", " ", "s", "u", "r", " ", "\"",
    "A", "d", "d", " ", "I", "n", "d", "e", "x", "\"", " ", "e", "t", " ",
    "c", "o", "n", "f", "i", "g", "u", "r", "e", "z", " ", "l", "'", "i",
    "n", "d", "e", "x", " ", "p", "o", "u", "r", " ", "l", "a", " ", "c",
    "o", "l", "l", "e", "c", "t", "i", "o", "n", " ", "\"">>

ConsoleAfter ==
  <<"\"">>

\* Mutant of handleMissingIndexError: only "requires an index" is looked for.
handleMissingIndexError_onePhrase(error, collection, options) ==
  LET errorMessage == IF Truthy(error.message) THEN error.message.chars
                      ELSE <<>>
  IN IF includesText(errorMessage, RequiresAnIndex)
       THEN LET createUrl == matchConsoleUrl(errorMessage)
            IN [type |-> "missing_index",
                message |-> Str(MissingIndexMessage \o errorMessage),
                collection |-> collection,
                queryType |-> Str(IF options.collectionGroup
                                    THEN CollectionGroupQuery
                                    ELSE CollectionQuery),
                createUrl |-> createUrl,
                instructions |->
                  Str(IF createUrl # JsNull
                        THEN VisitBefore \o createUrl.chars \o VisitAfter
                        ELSE ConsoleBefore \o collection.chars
                               \o ConsoleAfter)]
       ELSE [type |-> "other_error", message |-> Str(errorMessage),
             collection |-> collection]

\* `collection` is a string, options the record [collectionGroup].
handleMissingIndexError(error, collection, options) ==
  LET errorMessage == IF Truthy(error.message) THEN error.message.chars
                      ELSE <<>>
  IN IF \/ includesText(errorMessage, RequiresAnIndex)
        \/ includesText(errorMessage, NoMatchingIndexFound)
        \/ includesText(errorMessage, NeedsIndex)
       THEN LET createUrl == matchConsoleUrl(errorMessage)
            IN [type |-> "missing_index",
                message |-> Str(MissingIndexMessage \o errorMessage),
                collection |-> collection,
                queryType |-> Str(IF options.collectionGroup
                                    THEN CollectionGroupQuery
                                    ELSE CollectionQuery),
                createUrl |-> createUrl,
                instructions |->
                  Str(IF createUrl # JsNull
                        THEN VisitBefore \o createUrl.chars \o VisitAfter
                        ELSE ConsoleBefore \o collection.chars
                               \o ConsoleAfter)]
       ELSE [type |-> "other_error", message |-> Str(errorMessage),
             collection |-> collection]

(***************************************************************************)
(* State.                                                                  *)
(***************************************************************************)
VARIABLES
  documentCache,  \* the cache object
  now,            \* the latest reading of Date.now() (it never decreases)
  db,             \* the store: DocPaths -> NoDoc or Stored(document)
  h,              \* one record per handler slot (see Idle)
  calls,          \* invocations so far (bounded by MaxCalls)
  lastOp,         \* the documentCache call made by the last step, if any
  out,            \* the payload returned by the last step, if any
  acked,          \* per path: a create that returned success made the last write
  hist,           \* SpecCache: the keys set so far, while nothing but sets
                  \* of distinct keys has been called (Void afterwards)
  reads,          \* per path: the documents the firestore_get that read the
                  \* store answered with, and when (see NoRead)
  gets,           \* the calls of documentCache.get since the last clear (or
                  \* since the start): a history, to state the counters
  heap,           \* SpecNormalizer: the JavaScript objects, by address
  conv            \* SpecNormalizer: the last call of a converter, if any

vars ==
  <<documentCache, now, db, h, calls, lastOp, out, acked, hist, reads, gets,
    heap, conv>>

NoOp == [op |-> "none"]
NoReply == [st |-> "none"]
Pending == [st |-> "pending"]
NoOut == [tool |-> "none"]
Void == <<"void">>
NoConv == [fn |-> "none"]

\* History of the reads, kept to state what a later firestore_get owes to
\* the earlier ones: reads[path] holds ReadAt(data, t) for every
\* firestore_get of the path that answered with the document `data` it had
\* read from the store and stored it in the cache at time t, such that since
\* then no firestore_create of the path has started or invalidated, and set
\* has not evicted the entry of the path.
NoRead == {}
ReadAt(data, t) == [data |-> data, at |-> t]

\* The records after set has run on the cache dc: the paths whose entry it
\* evicted (lines 269-272) have none any more.
AfterEviction(dc) ==
  [q \in DocPaths |->
     IF /\ Len(dc.cache) >= dc.maxSize
        /\ Len(dc.cache) > 0
        /\ dc.cache[1].key = q[1] \o ":" \o q[2]
       THEN NoRead
       ELSE reads[q]]

\* A handler slot.  pc is the await the handler is suspended at ("idle" when
\* no invocation is in flight).  fresh, seen and last are history variables
\* used to state the claims: fresh says the get started after an acknowledged
\* create and no write to its path was applied since, seen is the set of
\* states its document had in the store while the get was in flight, last
\* says the create's write is the latest one applied to its path.
Idle ==
  [pc |-> "idle", tool |-> "none", collection |-> "", id |-> "",
   documentData |-> <<>>, merge |-> FALSE, reply |-> NoReply,
   fresh |-> FALSE, seen |-> {}, last |-> FALSE]

PathOf(r) == <<r.collection, r.id>>

\* The response of the invocation r, with what the claims need of r.
Returned(r, payload) ==
  [tool |-> r.tool, collection |-> r.collection, id |-> r.id,
   fresh |-> r.fresh, seen |-> r.seen, payload |-> payload]

\* The payloads.  A payload is the one element of the `content` a handler
\* returns.  For type "text" its text is the JSON.stringify of an object:
\* `text` is the mark Stringified and the other fields are those of that
\* object.  For type "error" its text is the message of the error caught: of
\* the operation of the store that failed, or ErrorText(e) of the Error e.
Stringified == "JSON.stringify"
ErrorPayload == [type |-> "error", text |-> "error.message"]
\* Mutant of ErrorText: the element of the catch without its text.
ErrorText_noText(e) == [type |-> "error"]
ErrorText(e) == [type |-> "error", text |-> e.message]

\* The state after the module is loaded, for a cache constructed with one of
\* the given sizes and lifetimes.
InitWith(sizes, ttls, heaps) ==
  /\ \E ms \in sizes, tl \in ttls :
       documentCache = [cache |-> <<>>, ttl |-> tl, maxSize |-> ms,
                        hitCount |-> 0, missCount |-> 0]
  /\ now = 0
  /\ db = [p \in DocPaths |->
             IF p \in InitiallyStored THEN Stored(InitDoc) ELSE NoDoc]
  /\ h = [p \in Procs |-> Idle]
  /\ calls = 0
  /\ lastOp = NoOp
  /\ out = NoOut
  /\ acked = [p \in DocPaths |-> FALSE]
  /\ hist = <<>>
  /\ reads = [p \in DocPaths |-> NoRead]
  /\ gets = 0
  /\ heap \in heaps
  /\ conv = NoConv

\* Spec: the smallest cache, which evicts as soon as a second key is stored,
\* or the largest, with the longest lifetime.
Init == InitWith({1, MaxMaxSize}, {MaxTtl}, {<<>>})

\* SpecCache: every size and lifetime within the bounds.
InitCache == InitWith(1..MaxMaxSize, 1..MaxTtl, {<<>>})

(***************************************************************************)
(* The label of a step: which documentCache method it called, with which   *)
(* arguments, from which slot, what the call returned, and the size of the *)
(* Map and the number of lookups counted before the call.                  *)
(***************************************************************************)
Before ==
  [size0 |-> Len(documentCache.cache),
   count0 |-> documentCache.hitCount + documentCache.missCount]

OpGet(key, p, ret) ==
  [op |-> "get", key |-> key, by |-> p, ret |-> ret, before |-> Before]

OpSet(key, data, p) ==
  [op |-> "set", key |-> key, data |-> data, by |-> p, before |-> Before]

OpInvalidate(key, p) ==
  [op |-> "invalidate", key |-> key, by |-> p, before |-> Before]

OpClear == [op |-> "clear", before |-> Before]

(***************************************************************************)
(* firestore_get (src/index.js:609-665).                                   *)
(***************************************************************************)
\* Lines 610-630: the cache lookup; a hit returns at once, a miss issues
\* docRef.get() and suspends.
GetCall(p, collection, id) ==
  /\ h[p].pc = "idle"
  /\ calls < MaxCalls
  /\ \E t \in now..MaxTime :
     LET key == cacheKey(collection, id)
         r == get(documentCache, key, t)
         started == [Idle EXCEPT !.tool = "firestore_get",
                                 !.collection = collection, !.id = id,
                                 !.fresh = acked[<<collection, id>>],
                                 !.seen = {db[<<collection, id>>]}]
     IN /\ MapHas(documentCache.cache, key) \/ t = now
        /\ now' = t
        /\ documentCache' = r.dc
        /\ lastOp' = OpGet(key, p, r.ret)
        /\ IF ~r.ret.null
             THEN /\ out' = Returned(started,
                                     [type |-> "text", text |-> Stringified,
                                      exists |-> TRUE,
                                      data |-> r.ret.data, fromCache |-> TRUE])
                  /\ UNCHANGED h
             ELSE /\ out' = NoOut
                  /\ h' = [h EXCEPT ![p] =
                             [started EXCEPT !.pc = "get_await",
                                             !.reply = Pending]]
  /\ calls' = calls + 1
  /\ gets' = gets + 1
  /\ UNCHANGED <<db, acked, hist, reads, heap, conv>>

\* Mutant of GetResume: the answer for a document that does not exist is
\* cached too.
GetResume_cacheMissing(p) ==
  /\ h[p].pc = "get_await"
  /\ h[p].reply.st \in {"ok", "error"}
  /\ LET key == cacheKey(h[p].collection, h[p].id)
     IN \/ /\ h[p].reply.st = "error"
           /\ out' = Returned(h[p], ErrorPayload)
           /\ lastOp' = NoOp
           /\ UNCHANGED <<documentCache, now, reads>>
        \/ /\ h[p].reply.st = "ok"
           /\ ~h[p].reply.snap.exists
           /\ out' = Returned(h[p], [type |-> "text", text |-> Stringified,
                                     exists |-> FALSE])
           /\ \E t \in now..MaxTime :
                /\ now' = t
                /\ documentCache' = set(documentCache, key, <<>>, t)
           /\ reads' = AfterEviction(documentCache)
           /\ lastOp' = OpSet(key, <<>>, p)
        \/ /\ h[p].reply.st = "ok"
           /\ h[p].reply.snap.exists
           /\ LET data == convertFlatDocument(h[p].reply.snap.data)
              IN /\ \E t \in now..MaxTime :
                      /\ now' = t
                      /\ documentCache' = set(documentCache, key, data, t)
                      /\ reads' = [AfterEviction(documentCache)
                                     EXCEPT ![PathOf(h[p])] = @ \cup {ReadAt(data, t)}]
                 /\ lastOp' = OpSet(key, data, p)
                 /\ out' = Returned(h[p],
                                    [type |-> "text", text |-> Stringified,
                                     exists |-> TRUE,
                                     data |-> data, fromCache |-> FALSE])
  /\ h' = [h EXCEPT ![p] = Idle]
  /\ UNCHANGED <<db, calls, acked, hist, heap, conv, gets>>

\* Lines 632-664: the continuation after `await docRef.get()`.
GetResume(p) ==
  /\ h[p].pc = "get_await"
  /\ h[p].reply.st \in {"ok", "error"}
  /\ LET key == cacheKey(h[p].collection, h[p].id)
     IN \/ /\ h[p].reply.st = "error"
           /\ out' = Returned(h[p], ErrorPayload)
           /\ lastOp' = NoOp
           /\ UNCHANGED <<documentCache, now, reads>>
        \/ /\ h[p].reply.st = "ok"
           /\ ~h[p].reply.snap.exists
           /\ out' = Returned(h[p], [type |-> "text", text |-> Stringified,
                                     exists |-> FALSE])
           /\ lastOp' = NoOp
           /\ UNCHANGED <<documentCache, now, reads>>
        \/ /\ h[p].reply.st = "ok"
           /\ h[p].reply.snap.exists
           /\ LET data == convertFlatDocument(h[p].reply.snap.data)
              IN /\ \E t \in now..MaxTime :
                      /\ now' = t
                      /\ documentCache' = set(documentCache, key, data, t)
                      /\ reads' = [AfterEviction(documentCache)
                                     EXCEPT ![PathOf(h[p])] = @ \cup {ReadAt(data, t)}]
                 /\ lastOp' = OpSet(key, data, p)
                 /\ out' = Returned(h[p],
                                    [type |-> "text", text |-> Stringified,
                                     exists |-> TRUE,
                                     data |-> data, fromCache |-> FALSE])
  /\ h' = [h EXCEPT ![p] = Idle]
  /\ UNCHANGED <<db, calls, acked, hist, heap, conv, gets>>

(***************************************************************************)
(* firestore_create (src/index.js:720-798), called without specialFields.  *)
(***************************************************************************)
\* Lines 721-773: build the reference (an id is generated when none is
\* given), copy the data, issue docRef.set() and suspend.
CreateCall(p, collection, idArg, data, merge) ==
  /\ h[p].pc = "idle"
  /\ calls < MaxCalls
  /\ \E id \in (IF idArg # "" THEN {idArg} ELSE Ids) :
       /\ <<collection, id>> \in DocPaths
       /\ h' = [h EXCEPT ![p] =
               [Idle EXCEPT !.pc = "create_await_set",
                            !.tool = "firestore_create",
                            !.collection = collection, !.id = id,
                            !.documentData = [k \in DOMAIN data |-> data[k]],
                            !.merge = merge, !.reply = Pending]]
       /\ reads' = [reads EXCEPT ![<<collection, id>>] = NoRead]
  /\ calls' = calls + 1
  /\ lastOp' = NoOp
  /\ out' = NoOut
  /\ UNCHANGED <<documentCache, now, db, acked, hist, heap, conv, gets>>

\* Mutant of CreateAfterSet: the invalidation is done whatever the outcome of
\* the write (as in a `finally`).
CreateAfterSet_invalidateAlways(p) ==
  /\ h[p].pc = "create_await_set"
  /\ h[p].reply.st \in {"ok", "error"}
  /\ LET key == cacheKey(h[p].collection, h[p].id)
     IN /\ documentCache' = invalidate(documentCache, key)
        /\ lastOp' = OpInvalidate(key, p)
        /\ \/ /\ h[p].reply.st = "ok"
              /\ h' = [h EXCEPT ![p].pc = "create_await_get",
                                ![p].reply = Pending]
              /\ out' = NoOut
           \/ /\ h[p].reply.st = "error"
              /\ h' = [h EXCEPT ![p] = Idle]
              /\ out' = Returned(h[p], ErrorPayload)
  /\ reads' = [reads EXCEPT ![PathOf(h[p])] = NoRead]
  /\ UNCHANGED <<now, db, calls, acked, hist, heap, conv, gets>>

\* Lines 775-780 and 793-797: the continuation after `await docRef.set()`:
\* invalidate, then issue docRef.get(); a rejected write goes to the catch.
CreateAfterSet(p) ==
  /\ h[p].pc = "create_await_set"
  /\ h[p].reply.st \in {"ok", "error"}
  /\ LET key == cacheKey(h[p].collection, h[p].id)
     IN \/ /\ h[p].reply.st = "ok"
           /\ documentCache' = invalidate(documentCache, key)
           /\ lastOp' = OpInvalidate(key, p)
           /\ h' = [h EXCEPT ![p].pc = "create_await_get",
                             ![p].reply = Pending]
           /\ out' = NoOut
        \/ /\ h[p].reply.st = "error"
           /\ h' = [h EXCEPT ![p] = Idle]
           /\ out' = Returned(h[p], ErrorPayload)
           /\ lastOp' = NoOp
           /\ UNCHANGED documentCache
  /\ reads' = [reads EXCEPT ![PathOf(h[p])] = NoRead]
  /\ UNCHANGED <<now, db, calls, acked, hist, heap, conv, gets>>

\* Lines 780-797: the continuation after the second `await docRef.get()`.
CreateAfterGet(p) ==
  /\ h[p].pc = "create_await_get"
  /\ h[p].reply.st \in {"ok", "error"}
  /\ LET path == PathOf(h[p])
     IN \/ /\ h[p].reply.st = "ok"
           /\ out' = Returned(h[p],
                              [type |-> "text", text |-> Stringified,
                               shown |-> Observable(h[p].reply.snap),
                               created |-> ~h[p].merge,
                               merged |-> h[p].merge])
           /\ acked' = [acked EXCEPT ![path] = @ \/ h[p].last]
        \/ /\ h[p].reply.st = "error"
           /\ out' = Returned(h[p], ErrorPayload)
           /\ UNCHANGED acked
  /\ h' = [h EXCEPT ![p] = Idle]
  /\ lastOp' = NoOp
  /\ UNCHANGED <<documentCache, now, db, calls, hist, reads, heap, conv, gets>>

(***************************************************************************)
(* The store (the Firestore client library and service, external to the    *)
(* repository): it serves each pending request at some moment between the  *)
(* call and the continuation, and may fail it.                             *)
(***************************************************************************)
StoreRead(p) ==
  /\ h[p].pc \in {"get_await", "create_await_get"}
  /\ h[p].reply = Pending
  /\ \/ h' = [h EXCEPT ![p].reply =
                [st |-> "ok", snap |-> db[PathOf(h[p])]]]
     \/ h' = [h EXCEPT ![p].reply = [st |-> "error"]]
  /\ lastOp' = NoOp
  /\ out' = NoOut
  /\ UNCHANGED <<documentCache, now, db, calls, acked, hist, reads, heap, conv,
                 gets>>

StoreWrite(p) ==
  /\ h[p].pc = "create_await_set"
  /\ h[p].reply = Pending
  /\ LET path == PathOf(h[p])
         new == StoreSet(db[path], h[p].documentData, h[p].merge)
     IN \/ /\ db' = [db EXCEPT ![path] = new]
           /\ h' = [q \in Procs |->
                      IF q = p
                        THEN [h[q] EXCEPT !.reply = [st |-> "ok"],
                                          !.last = TRUE]
                      ELSE IF PathOf(h[q]) # path THEN h[q]
                      ELSE IF h[q].pc = "get_await"
                        THEN [h[q] EXCEPT !.fresh = FALSE,
                                          !.seen = @ \cup {new}]
                        ELSE [h[q] EXCEPT !.last = FALSE]]
           /\ acked' = [acked EXCEPT ![path] = FALSE]
        \/ /\ h' = [h EXCEPT ![p].reply = [st |-> "error"]]
           /\ UNCHANGED <<db, acked, hist, reads>>
  /\ lastOp' = NoOp
  /\ out' = NoOut
  /\ UNCHANGED <<documentCache, now, calls, hist, reads, heap, conv, gets>>

Next ==
  \/ \E p \in Procs, path \in DocPaths : GetCall(p, path[1], path[2])
  \/ \E p \in Procs : GetResume(p)
  \/ \E p \in Procs, collection \in Collections, idArg \in Ids \cup {""},
        data \in DataInputs, merge \in BOOLEAN :
       CreateCall(p, collection, idArg, data, merge)
  \/ \E p \in Procs : CreateAfterSet(p)
  \/ \E p \in Procs : CreateAfterGet(p)
  \/ \E p \in Procs : StoreRead(p)
  \/ \E p \in Procs : StoreWrite(p)

Spec == Init /\ [][Next]_vars

(***************************************************************************)
(* SpecCache: the documentCache object driven directly.  Date.now() is     *)
(* read by get only when the key is present (line 253) and by every set.   *)
(***************************************************************************)
Documents == {InitDoc} \cup DataInputs

CallGet(key) ==
  /\ calls < MaxOps
  /\ \E t \in now..MaxTime :
       LET r == get(documentCache, key, t)
       IN /\ MapHas(documentCache.cache, key) \/ t = now
          /\ now' = t
          /\ documentCache' = r.dc
          /\ lastOp' = OpGet(key, "none", r.ret)
  /\ hist' = Void
  /\ calls' = calls + 1
  /\ gets' = gets + 1
  /\ UNCHANGED <<db, h, out, acked, reads, heap, conv>>

CallSet(key, data) ==
  /\ calls < MaxOps
  /\ \E t \in now..MaxTime :
       /\ now' = t
       /\ documentCache' = set(documentCache, key, data, t)
  /\ lastOp' = OpSet(key, data, "none")
  /\ hist' = IF hist # Void /\ \A i \in 1..Len(hist) : hist[i] # key
               THEN Append(hist, key) ELSE Void
  /\ calls' = calls + 1
  /\ UNCHANGED <<db, h, out, acked, reads, heap, conv, gets>>

CallInvalidate(key) ==
  /\ calls < MaxOps
  /\ documentCache' = invalidate(documentCache, key)
  /\ lastOp' = OpInvalidate(key, "none")
  /\ hist' = Void
  /\ calls' = calls + 1
  /\ UNCHANGED <<now, db, h, out, acked, reads, heap, conv, gets>>

CallClear ==
  /\ calls < MaxOps
  /\ documentCache' = clear(documentCache)
  /\ lastOp' = OpClear
  /\ hist' = Void
  /\ calls' = calls + 1
  /\ gets' = 0
  /\ UNCHANGED <<now, db, h, out, acked, reads, heap, conv>>

\* getStats is not counted against MaxOps.
CallGetStats ==
  /\ LET r == getStats(documentCache)
     IN /\ documentCache' = r.dc
        /\ lastOp' = [op |-> "getStats", ret |-> r.ret, before |-> Before]
  /\ UNCHANGED <<now, db, h, calls, out, acked, hist, reads, heap, conv,
                 gets>>

NextCache ==
  \/ \E key \in CacheKeys : CallGet(key)
  \/ \E key \in CacheKeys, data \in Documents : CallSet(key, data)
  \/ \E key \in CacheKeys : CallInvalidate(key)
  \/ CallClear
  \/ CallGetStats

SpecCache == InitCache /\ [][NextCache]_vars

(***************************************************************************)
(* SpecEviction: documentCache.set, get and invalidate on a cache that is  *)
(* one entry larger than the largest of SpecCache and called with one key  *)
(* more, so that a key can be stored again while the cache is not full     *)
(* and the cache can be filled afterwards.  The behaviours start when the  *)
(* cache is empty or after set was called at time 0 for one key or two.    *)
(***************************************************************************)
EvictionKeys == CacheKeys \cup {cacheKey("a", "d")}

\* The Map after set(EarlyKeys[1], InitDoc) and set(EarlyKeys[2], InitDoc)
\* at time 0.
EarlyKeys == <<cacheKey("a", "c"), cacheKey("a", "b:c")>>
EarlyEntries ==
  [i \in 1..2 |-> [key |-> EarlyKeys[i], data |-> InitDoc, timestamp |-> 0]]

InitEviction ==
  /\ \E ms \in 1..(MaxMaxSize + 1), n \in 0..2 :
       /\ n <= ms
       /\ documentCache = [cache |-> SubSeq(EarlyEntries, 1, n),
                           ttl |-> MaxTtl, maxSize |-> ms,
                           hitCount |-> 0, missCount |-> 0]
  /\ now = 0
  /\ db = [p \in DocPaths |->
             IF p \in InitiallyStored THEN Stored(InitDoc) ELSE NoDoc]
  /\ h = [p \in Procs |-> Idle]
  /\ calls = 0
  /\ lastOp = NoOp
  /\ out = NoOut
  /\ acked = [p \in DocPaths |-> FALSE]
  /\ hist = Void
  /\ reads = [p \in DocPaths |-> NoRead]
  /\ gets = 0
  /\ heap = <<>>
  /\ conv = NoConv

NextEviction ==
  \/ \E key \in EvictionKeys : CallSet(key, InitDoc)
  \/ \E key \in EvictionKeys : CallGet(key)
  \/ \E key \in EvictionKeys : CallInvalidate(key)

SpecEviction == InitEviction /\ [][NextEviction]_vars

(***************************************************************************)
(* SpecNormalizer: the converters applied to values held in a heap.        *)
(***************************************************************************)
\* Graphs: MaxObjects composite values of one or two slots, plain objects at
\* the odd addresses and arrays at the even ones, each slot a number, one of
\* the composite values (itself included: the graphs have cycles and shared
\* objects) or the Timestamp that follows them in the heap.
GraphSlots == {Num(1)} \cup {Ref(a) : a \in 1..(MaxObjects + 1)}

GraphCells(a) ==
  IF a % 2 = 1
    THEN {Obj(<<Prop("x", v)>>) : v \in GraphSlots}
           \cup {Obj(<<Prop("x", v), Prop("y", w)>>) :
                   v \in GraphSlots, w \in GraphSlots}
    ELSE {Arr(<<v>>) : v \in GraphSlots}
           \cup {Arr(<<v, w>>) : v \in GraphSlots, w \in GraphSlots}

GraphHeaps ==
  {[a \in 1..(MaxObjects + 1) |->
      IF a <= MaxObjects THEN g[a] ELSE TimestampCell(1500)] :
     g \in {f \in [1..MaxObjects -> UNION {GraphCells(a) : a \in 1..MaxObjects}] :
              \A a \in 1..MaxObjects : f[a] \in GraphCells(a)}}

\* A chain: ChainDepth objects, each the only property of the one before.
ChainHeap ==
  [a \in 1..ChainDepth |->
     Obj(<<Prop("x", IF a < ChainDepth THEN Ref(a + 1) ELSE Num(1))>>)]

\* References: two DocumentReference instances (users/u and a document of a
\* subcollection), records with a `path` property, a record tagged as a
\* converted reference that holds a Timestamp, a GeoPoint.
ReferenceHeap ==
  <<DocumentReferenceCell(<<<<"u", "s">>, <<"u">>>>),
    DocumentReferenceCell(<<<<"u", "s">>, <<"u">>, <<"p">>, <<"q">>>>),
    Obj(<<Prop("path", Str(<<"u", "s", "/", "u">>)), Prop("title", Num(1))>>),
    Obj(<<Prop("path", Str(<<"u", "s">>)), Prop("title", Num(1))>>),
    Obj(<<Prop("_isDocumentReference", Bool(TRUE)), Prop("when", Ref(6))>>),
    TimestampCell(1500),
    GeoPointCell(Num(1), Num(2)),
    Arr(<<Ref(1), Ref(3), Ref(6)>>)>>

\* The values of the special fields of a request: a record that is no
\* timestamp, coordinates (numeric, not numeric, out of range), records with
\* a path of two segments and of one, an array.
NativeHeap ==
  <<Obj(<<Prop("foo", Num(1))>>),
    Obj(<<Prop("latitude", Num(1)), Prop("longitude", Num(2))>>),
    Obj(<<Prop("latitude", Str(<<"a">>)), Prop("longitude", Str(<<"b">>))>>),
    Obj(<<Prop("latitude", Num(91)), Prop("longitude", Num(0))>>),
    Obj(<<Prop("path", Str(<<"u", "s", "/", "u">>))>>),
    Obj(<<Prop("path", Str(<<"u", "s">>))>>),
    Arr(<<Num(1), Str(<<"a">>)>>)>>

\* The primitive values given to convertValueToFirestoreType: null, a
\* boolean, a number, and strings: a date in ISO format, a text that is
\* neither a date nor a number nor JSON, digits, two document paths, a single
\* path segment, the JSON texts of two arrays and of an object, a text that
\* starts as an array and is cut short, "TRUE", "".
RawPrimitives ==
  {JsNull, Bool(TRUE), Num(1500),
   Str(toISOString(1500)),
   Str(<<"n", "o", "p", "e">>),
   Str(<<"1", "2">>),
   Str(<<"u", "s", "/", "u">>),
   Str(<<"u", "s", "/", "u", "/", "p", "/", "q">>),
   Str(<<"u", "s", "/", "u", "/", "p">>),
   Str(<<"u", "s">>),
   Str(<<"[", "1", ",", "2", "]">>),
   Str(<<"[", "\"", "a", "\"", ",", " ", "[", "1", "]", "]">>),
   Str(<<"[", "1", ",", "2">>),
   Str(<<"{", "\"", "f", "o", "o", "\"", ":", "1", "}">>),
   Str(<<"T", "R", "U", "E">>),
   Str(<<>>)}

RawValues == RawPrimitives \cup {Ref(a) : a \in 1..Len(NativeHeap)}

InputHeaps == GraphHeaps \cup {ChainHeap, ReferenceHeap, NativeHeap}

InitNormalizer == InitWith({MaxMaxSize}, {MaxTtl}, InputHeaps)

\* The values a converter can be called with: null and the objects of the
\* heap.
MaxAddr ==
  CHOOSE n \in {Len(H) : H \in InputHeaps} :
    \A H \in InputHeaps : Len(H) <= n

Roots == {JsNull} \cup {Ref(a) : a \in 1..MaxAddr}

InHeap(v) == IF v.t = "object" THEN v.addr <= Len(heap) ELSE TRUE

\* Mutant of visitedObjects: one WeakMap serves every call, so a call starts
\* with the objects the call before it has visited.
visitedObjects_shared ==
  IF conv.fn = "convertTimestampsToISO"
    THEN {conv.trace[i] : i \in 1..Len(conv.trace)}
    ELSE {}

\* The default of the parameter visitedObjects (line 345), `new WeakMap()`:
\* it is evaluated at each call that passes none.
visitedObjects == {}

\* What a call of convertTimestampsToISO leaves: the heap, and the record of
\* the call (nth says whether it is the first of the behaviour, 1, a second
\* one on the result of the first, 2, or a second one on the argument of the
\* first, 3; arg0 and ret0 are the argument and the result of the first,
\* size0 is the number of objects before the call).
ToPlainCalled(data, maxDepth, nth) ==
  LET r == convertTimestampsToISO(
             [heap |-> heap, visited |-> visitedObjects, trace |-> <<>>],
             data, 0, maxDepth)
  IN /\ heap' = r.st.heap
     /\ conv' = [fn |-> "convertTimestampsToISO", data |-> data,
                 maxDepth |-> maxDepth, ret |-> r.ret,
                 trace |-> r.st.trace, size0 |-> Len(heap), nth |-> nth,
                 arg0 |-> IF nth = 1 THEN data ELSE conv.arg0,
                 ret0 |-> IF nth = 1 THEN r.ret ELSE conv.ret]

\* A top-level call convertTimestampsToISO(data, new WeakMap(), 0, maxDepth).
CallToPlain(data, maxDepth) ==
  /\ conv.fn = "none"
  /\ InHeap(data)
  /\ ToPlainCalled(data, maxDepth, 1)
  /\ UNCHANGED <<documentCache, now, db, h, calls, lastOp, out, acked, hist,
                 reads, gets>>

\* A second top-level call, on the result of the first.
CallToPlainOnResult ==
  /\ conv.fn = "convertTimestampsToISO"
  /\ conv.nth = 1
  /\ ToPlainCalled(conv.ret, conv.maxDepth, 2)
  /\ UNCHANGED <<documentCache, now, db, h, calls, lastOp, out, acked, hist,
                 reads, gets>>

\* A second top-level call, on the argument of the first.
CallToPlainAgain ==
  /\ conv.fn = "convertTimestampsToISO"
  /\ conv.nth = 1
  /\ ToPlainCalled(conv.data, conv.maxDepth, 3)
  /\ UNCHANGED <<documentCache, now, db, h, calls, lastOp, out, acked, hist,
                 reads, gets>>

\* A call convertValueToFirestoreType(value, type) on a value of a request.
CallToNative(value, type, legacy) ==
  /\ conv.fn = "none"
  /\ heap = NativeHeap
  /\ LET r == convertValueToFirestoreType(
                [heap |-> heap, legacyDate |-> legacy], value, type)
     IN /\ heap' = r.st.heap
        /\ conv' = [fn |-> "convertValueToFirestoreType", value |-> value,
                    type |-> type, threw |-> r.threw,
                    ret |-> IF r.threw THEN JsUndefined ELSE r.ret,
                    size0 |-> Len(heap)]
  /\ UNCHANGED <<documentCache, now, db, h, calls, lastOp, out, acked, hist,
                 reads, gets>>

\* convertValueToFirestoreType applied to what convertTimestampsToISO
\* returned for a DocumentReference (arg0 is that reference).
CallToNativeOnPlain(type, legacy) ==
  /\ conv.fn = "convertTimestampsToISO"
  /\ conv.nth = 1
  /\ conv.data.t = "object"
  /\ heap[conv.data.addr].cls = "DocumentReference"
  /\ LET r == convertValueToFirestoreType(
                [heap |-> heap, legacyDate |-> legacy], conv.ret, type)
     IN /\ heap' = r.st.heap
        /\ conv' = [fn |-> "convertValueToFirestoreType", value |-> conv.ret,
                    type |-> type, threw |-> r.threw,
                    ret |-> IF r.threw THEN JsUndefined ELSE r.ret,
                    size0 |-> Len(heap), arg0 |-> conv.data]
  /\ UNCHANGED <<documentCache, now, db, h, calls, lastOp, out, acked, hist,
                 reads, gets>>

\* firestore_create with data {} and one special field {fieldPath: "f", type,
\* value}, up to its first await (lines 720-773) or, when the conversion
\* throws, through the catch to its return (793-797).
CreateCallSpecial(p, collection, id, value, type, legacy) ==
  /\ h[p].pc = "idle"
  /\ calls < MaxCalls
  /\ conv.fn = "none"
  /\ heap = NativeHeap
  /\ <<collection, id>> \in DocPaths
  /\ LET r == convertValueToFirestoreType(
                [heap |-> heap, legacyDate |-> legacy], value, type)
         inv == [Idle EXCEPT !.tool = "firestore_create",
                             !.collection = collection, !.id = id]
     IN /\ heap' = r.st.heap
        /\ conv' = [fn |-> "firestore_create", value |-> value,
                    type |-> type, threw |-> r.threw, p |-> p]
        /\ IF r.threw
             THEN /\ out' = Returned(inv, ErrorPayload)
                  /\ h' = h
             ELSE /\ out' = NoOut
                  /\ h' = [h EXCEPT ![p] =
                            [inv EXCEPT !.pc = "create_await_set",
                                        !.documentData = [f |-> r.ret],
                                        !.reply = Pending]]
  /\ calls' = calls + 1
  /\ lastOp' = NoOp
  /\ UNCHANGED <<documentCache, now, db, acked, hist, reads, gets>>

NextNormalizer ==
  \/ \E data \in Roots, maxDepth \in 0..MaxDepthArg :
       CallToPlain(data, maxDepth)
  \/ CallToPlainOnResult
  \/ CallToPlainAgain
  \/ \E value \in RawValues, type \in Types, legacy \in LegacyDates :
       CallToNative(value, type, legacy)
  \/ \E type \in Types, legacy \in LegacyDates :
       CallToNativeOnPlain(type, legacy)
  \/ \E value \in RawValues, type \in Types, legacy \in LegacyDates :
       CreateCallSpecial("p1", "a", "c", value, type, legacy)

SpecNormalizer == InitNormalizer /\ [][NextNormalizer]_vars

(***************************************************************************)
(* SpecTools: the four tool handlers called one at a time, with the        *)
(* failures of the store.  firestore_list_collections (670-704) and        *)
(* firestore_collection_group_query (803-912) are split at their `await`   *)
(* like the other two.  The Firestore library is external: where() and     *)
(* doc() validate their arguments and throw, the store answers a request   *)
(* or fails it with an Error.                                              *)
(***************************************************************************)
InitTools == InitWith({MaxMaxSize}, {MaxTtl}, {<<>>})

\* The handler slot of an invocation of `tool` suspended at `pc`, with the
\* values `more` it keeps across the await.
Suspended(tool, pc, collection, more) ==
  more @@ [Idle EXCEPT !.pc = pc, !.tool = tool, !.collection = collection,
                       !.reply = Pending]

\* The Errors the store fails a request with: a missing index with the link
\* to create it, the two other wordings of a missing index, a refusal, an
\* empty message, the first wording in other letter case, the link alone.
StoreErrors ==
  {Error(
      <<"9", " ", "F", "A", "I", "L", "E", "D", "_", "P", "R", "E", "C",
        "O", "N", "D", "I", "T", "I", "O", "N", ":", " ", "T", "h", "e",
        " ", "q", "u", "e", "r", "y", " ", "r", "e", "q", "u", "i", "r",
        "e", "s", " ", "a", "n", " ", "i", "n", "d", "e", "x", ".", " ",
        "Y", "o", "u", " ", "c", "a", "n", " ", "c", "r", "e", "a", "t",
        "e", " ", "i", "t", " ", "h", "e", "r", "e", ":", " ", "h", "t",
        "t", "p", "s", ":", "/", "/", "c", "o", "n", "s", "o", "l", "e",
        ".", "f", "i", "r", "e", "b", "a", "s", "e", ".", "g", "o", "o",
        "g", "l", "e", ".", "c", "o", "m", "/", "p", "/", "x", " ", "a",
        "n", "d", " ", "w", "a", "i", "t">>),
   Error(NoMatchingIndexFound),
   Error(
      <<"q", "u", "e", "r", "y", " ", "n", "e", "e", "d", "s", " ", "i",
        "n", "d", "e", "x">>),
   Error(
      <<"7", " ", "P", "E", "R", "M", "I", "S", "S", "I", "O", "N", "_",
        "D", "E", "N", "I", "E", "D">>),
   Error(<<>>),
   Error(
      <<"R", "e", "q", "u", "i", "r", "e", "s", " ", "A", "n", " ", "I",
        "n", "d", "e", "x">>),
   Error(
      <<"s", "e", "e", " ", "h", "t", "t", "p", "s", ":", "/", "/", "c",
        "o", "n", "s", "o", "l", "e", ".", "f", "i", "r", "e", "b", "a",
        "s", "e", ".", "g", "o", "o", "g", "l", "e", ".", "c", "o", "m",
        "/", "p">>)}

\* The Error a call of the library throws for an argument it refuses.
InvalidArgument ==
  Error(
    <<"V", "a", "l", "u", "e", " ", "f", "o", "r", " ", "a", "r", "g", "u",
      "m", "e", "n", "t", " ", "i", "s", " ", "n", "o", "t", " ", "v", "a",
      "l", "i", "d">>)

\* The characters of the name of a collection.
CollectionChars(collection) ==
  IF collection = "a" THEN <<"a">> ELSE <<"a", ":", "b">>

\* firestore_list_collections, line 676-689, to `await listCollections()`;
\* doc(parentPath) throws for a path that is no document path, and the
\* catch (698-703) answers.
ListCall(p, parentPath) ==
  /\ h[p].pc = "idle"
  /\ calls < MaxCalls
  /\ LET collectionsRef == IF Truthy(parentPath) THEN doc(parentPath)
                           ELSE Returns([cls |-> "Firestore"])
         inv == [Idle EXCEPT !.tool = "firestore_list_collections"]
     IN IF collectionsRef.threw
          THEN /\ out' = Returned(inv, ErrorText(InvalidArgument))
               /\ h' = h
          ELSE /\ out' = NoOut
               /\ h' = [h EXCEPT ![p] =
                         Suspended("firestore_list_collections", "list_await",
                                   "", [parentPath |-> parentPath,
                                        collectionsRef |-> collectionsRef.v])]
  /\ calls' = calls + 1
  /\ lastOp' = NoOp
  /\ UNCHANGED <<documentCache, now, db, acked, hist, reads, heap, conv, gets>>

\* The store answers listCollections(): the collections that hold a document
\* (no document of the model has subcollections), or an Error.
StoreList(p) ==
  /\ h[p].pc = "list_await"
  /\ h[p].reply = Pending
  /\ \/ h' = [h EXCEPT ![p].reply =
                [st |-> "ok",
                 collections |->
                   IF h[p].collectionsRef.cls = "Firestore"
                     THEN {path[1] : path \in {q \in DocPaths : db[q].exists}}
                     ELSE {}]]
     \/ \E e \in StoreErrors :
          h' = [h EXCEPT ![p].reply = [st |-> "error", error |-> e]]
  /\ lastOp' = NoOp
  /\ out' = NoOut
  /\ UNCHANGED <<documentCache, now, db, calls, acked, hist, reads, heap, conv,
                 gets>>

\* Lines 689-703: the continuation after `await listCollections()`.
ListResume(p) ==
  /\ h[p].pc = "list_await"
  /\ h[p].reply.st \in {"ok", "error"}
  /\ IF h[p].reply.st = "ok"
       THEN out' = Returned(h[p],
                            [type |-> "text", text |-> Stringified,
                             collections |-> h[p].reply.collections,
                             count |-> Cardinality(h[p].reply.collections),
                             parentPath |-> IF Truthy(h[p].parentPath)
                                              THEN h[p].parentPath
                                              ELSE JsNull])
       ELSE out' = Returned(h[p], ErrorText(h[p].reply.error))
  /\ h' = [h EXCEPT ![p] = Idle]
  /\ lastOp' = NoOp
  /\ UNCHANGED <<documentCache, now, db, calls, acked, hist, reads, heap, conv,
                 gets>>

\* The operators of query.where, and those whose value must be an array
\* with at least one element.
WhereOperators ==
  {"==", ">", "<", ">=", "<=", "!=", "array-contains", "array-contains-any",
   "in", "not-in"}
ArrayOperators == {"array-contains-any", "in", "not-in"}

\* query.where(field, operator, value) on the clauses built so far.
where(hp, wheres, field, operator, value) ==
  IF operator \notin WhereOperators THEN Throws
  ELSE IF operator \in ArrayOperators
            /\ ~(value.t = "object" /\ hp[value.addr].cls = "Array"
                   /\ hp[value.addr].items # <<>>)
    THEN Throws
  ELSE Returns(Append(wheres, [field |-> field, operator |-> operator,
                               value |-> value]))

\* Lines 826-843: the loop over the filters from the k-th on; st is the
\* state of the heap (JSON.parse creates objects), wheres the clauses of the
\* query so far.  Returns [threw, st, wheres].
RECURSIVE applyFilters(_, _, _, _)
applyFilters(st, wheres, filters, k) ==
  IF k > Len(filters) THEN [threw |-> FALSE, st |-> st, wheres |-> wheres]
  ELSE LET filter == filters[k]
           special == /\ filter.operator \in {"in", "array-contains-any"}
                      /\ filter.value.t = "string"
           parsed == IF special THEN JSONparse(st, filter.value.chars)
                     ELSE [threw |-> TRUE]
           s1 == IF parsed.threw THEN st ELSE parsed.st
           \* Lines 832-835: where() with the parsed value, inside the try.
           tried == IF parsed.threw THEN Throws
                    ELSE where(s1.heap, wheres, filter.field, filter.operator,
                               parsed.ret)
           \* Lines 836-838 and 840-842: where() with the value as it is.
           w == IF special /\ ~tried.threw THEN tried
                ELSE where(s1.heap, wheres, filter.field, filter.operator,
                           filter.value)
       IN IF w.threw THEN [threw |-> TRUE, st |-> s1]
          ELSE applyFilters(s1, w.v, filters, k + 1)

\* The argument `filters`: absent, empty, an equality, a membership whose
\* value is the JSON text of an array, one whose value is no JSON, and a
\* filter with an operator that does not exist.
NoFilters == [present |-> FALSE, items |-> <<>>]
Filters(items) == [present |-> TRUE, items |-> items]
QueryFilters ==
  {NoFilters,
   Filters(<<>>),
   Filters(<<[field |-> "f", operator |-> "==", value |-> Num(1)]>>),
   Filters(<<[field |-> "f", operator |-> "in",
              value |-> Str(<<"[", "1", ",", "2", "]">>)]>>),
   Filters(<<[field |-> "f", operator |-> "in",
              value |-> Str(<<"n", "o", "p", "e">>)]>>),
   Filters(<<[field |-> "f", operator |-> "~", value |-> Num(1)]>>)}

\* The argument `limit`: absent, 0 and 1 (orderBy is absent).
QueryLimits == {JsUndefined, Num(0), Num(1)}

\* What the catch of firestore_collection_group_query returns for the
\* error (lines 886-909), with the result of handleMissingIndexError.
QueryFailed(r, collectionId, error) ==
  LET errorHandler ==
        handleMissingIndexError(error, Str(CollectionChars(collectionId)),
                                [collectionGroup |-> TRUE])
  IN [errorHandler |-> errorHandler, error |-> error]
       @@ Returned(r,
            IF errorHandler.type = "missing_index"
              THEN [type |-> "text", text |-> Stringified,
                    error |-> "INDEX_REQUIRED",
                    message |-> errorHandler.message,
                    collectionId |-> collectionId,
                    createUrl |-> errorHandler.createUrl]
              ELSE ErrorText(error))

\* firestore_collection_group_query, lines 819-860, to `await query.get()`;
\* an exception of where() goes to the catch.
QueryCall(p, collectionId, filters, limit) ==
  /\ h[p].pc = "idle"
  /\ calls < MaxCalls
  /\ LET q == applyFilters([heap |-> heap], <<>>, filters.items, 1)
         inv == [Idle EXCEPT !.tool = "firestore_collection_group_query",
                             !.collection = collectionId]
     IN /\ heap' = q.st.heap
        /\ IF q.threw
             THEN /\ out' = QueryFailed(inv, collectionId, InvalidArgument)
                  /\ h' = h
             ELSE /\ out' = NoOut
                  /\ h' = [h EXCEPT ![p] =
                            Suspended("firestore_collection_group_query",
                                      "query_await", collectionId,
                                      [filters |-> filters,
                                       query |-> [collectionGroup |-> collectionId,
                                                  wheres |-> q.wheres,
                                                  limit |-> IF Truthy(limit)
                                                              THEN limit
                                                              ELSE JsUndefined]])]
  /\ calls' = calls + 1
  /\ lastOp' = NoOp
  /\ UNCHANGED <<documentCache, now, db, acked, hist, reads, conv, gets>>

\* The store answers query.get(): documents of the collection group (all of
\* them for a query without clauses, those the store finds to satisfy the
\* clauses otherwise; no more than the limit), or an Error.
StoreQuery(p) ==
  /\ h[p].pc = "query_await"
  /\ h[p].reply = Pending
  /\ LET query == h[p].query
         group == {path \in DocPaths :
                     path[1] = query.collectionGroup /\ db[path].exists}
     IN \/ \E docs \in SUBSET group :
             /\ query.limit.t = "number" => Cardinality(docs) <= query.limit.v
             /\ query.wheres = <<>> =>
                  \/ docs = group
                  \/ /\ query.limit.t = "number"
                     /\ Cardinality(docs) = query.limit.v
             /\ h' = [h EXCEPT ![p].reply =
                        [st |-> "ok",
                         snapshot |-> {[path |-> path, data |-> db[path].data] :
                                         path \in docs}]]
        \/ \E e \in StoreErrors :
             h' = [h EXCEPT ![p].reply = [st |-> "error", error |-> e]]
  /\ lastOp' = NoOp
  /\ out' = NoOut
  /\ UNCHANGED <<documentCache, now, db, calls, acked, hist, reads, heap, conv,
                 gets>>

\* Lines 860-909: the continuation after `await query.get()`.  The results
\* are held as a set (their order is that of the snapshot).
QueryResume(p) ==
  /\ h[p].pc = "query_await"
  /\ h[p].reply.st \in {"ok", "error"}
  /\ IF h[p].reply.st = "ok"
       THEN LET results ==
                  {[id |-> d.path[Len(d.path)],
                    path |-> d.path,
                    parentPath |->
                      IF SubSeq(d.path, 1, Len(d.path) - 2) # <<>>
                        THEN Str(join(SubSeq(d.path, 1, Len(d.path) - 2), "/"))
                        ELSE JsNull,
                    data |-> convertFlatDocument(d.data)] :
                     d \in h[p].reply.snapshot}
            IN out' = Returned(h[p],
                               [type |-> "text", text |-> Stringified,
                                collectionId |-> h[p].collection,
                                filteredCount |->
                                  IF h[p].filters.present
                                    THEN Len(h[p].filters.items) ELSE 0,
                                resultCount |-> Cardinality(results),
                                results |-> results])
       ELSE out' = QueryFailed(h[p], h[p].collection, h[p].reply.error)
  /\ h' = [h EXCEPT ![p] = Idle]
  /\ lastOp' = NoOp
  /\ UNCHANGED <<documentCache, now, db, calls, acked, hist, reads, heap, conv,
                 gets>>

\* The parentPath of firestore_list_collections: absent, empty, the path of
\* a document, the path of a collection.
ParentPaths ==
  {JsUndefined, Str(<<>>), Str(<<"a", "/", "c">>), Str(<<"a">>)}

NextTools ==
  \/ GetCall("p1", "a", "c")
  \/ GetResume("p1")
  \/ \E data \in DataInputs : CreateCall("p1", "a", "c", data, FALSE)
  \/ CreateAfterSet("p1")
  \/ CreateAfterGet("p1")
  \/ StoreRead("p1")
  \/ StoreWrite("p1")
  \/ \E parentPath \in ParentPaths : ListCall("p1", parentPath)
  \/ StoreList("p1")
  \/ ListResume("p1")
  \/ \E collectionId \in Collections, filters \in QueryFilters,
        limit \in QueryLimits :
       QueryCall("p1", collectionId, filters, limit)
  \/ StoreQuery("p1")
  \/ QueryResume("p1")

SpecTools == InitTools /\ [][NextTools]_vars

(***************************************************************************)
(* Properties.                                                             *)
(***************************************************************************)
\* The entries of the cache before and after a step, and its keys.
Old == documentCache.cache
New == documentCache'.cache

\* Every entry of m other than key's is in n, unchanged, and these entries
\* are in the same order in n as in m.
OthersKept(m, n, key) ==
  /\ \A e \in {m[i] : i \in 1..Len(m)} :
       e.key # key => \E j \in 1..Len(n) : n[j] = e
  /\ \A i, j \in 1..Len(m) :
       (i < j /\ m[i].key # key /\ m[j].key # key) =>
         \E a, b \in 1..Len(n) : a < b /\ n[a] = m[i] /\ n[b] = m[j]

CountersKept ==
  /\ documentCache'.hitCount = documentCache.hitCount
  /\ documentCache'.missCount = documentCache.missCount

ConfigKept ==
  /\ documentCache'.ttl = documentCache.ttl
  /\ documentCache'.maxSize = documentCache.maxSize

\* The last n elements of the sequence q.
LastOf(q, n) == [i \in 1..n |-> q[Len(q) - n + i]]

(* C1: after every documentCache operation the cache holds at most maxSize
   entries. *)
CacheBounded == Len(documentCache.cache) <= documentCache.maxSize

\* A set on a full cache has just evicted, and the cache is full again.
CacheBoundedWitness ==
  /\ lastOp.op = "set"
  /\ lastOp.before.size0 = documentCache.maxSize
  /\ Len(documentCache.cache) = documentCache.maxSize
  /\ documentCache.maxSize >= 2

(* C2: get returns a value only for an entry whose age, at the clock reading
   the get took, is at most ttl; the value is that entry's data. *)
FreshHitsOnly ==
  (lastOp.op = "get" /\ ~lastOp.ret.null) =>
    /\ MapHas(documentCache.cache, lastOp.key)
    /\ now - MapGet(documentCache.cache, lastOp.key).timestamp
         <= documentCache.ttl
    /\ lastOp.ret.data = MapGet(documentCache.cache, lastOp.key).data

\* A hit on an entry whose age is exactly ttl.
FreshHitWitness ==
  /\ lastOp.op = "get"
  /\ ~lastOp.ret.null
  /\ now - MapGet(documentCache.cache, lastOp.key).timestamp
       = documentCache.ttl

(* C3: read-after-write consistency.  A firestore_get that starts after a
   firestore_create on the same (collection, id) has returned success, with
   no write applied to that document since, answers with the document as the
   store holds it. *)
ReadAfterWrite ==
  (out.tool = "firestore_get" /\ out.fresh /\ out.payload.type = "text") =>
    LET s == db[<<out.collection, out.id>>]
    IN /\ out.payload.exists
       /\ s.exists
       /\ out.payload.data = convertFlatDocument(s.data)

(* C4: the cache is transparent.  The exists/data content of every
   firestore_get response is what a get that reads the store would answer:
   the content of the document in a state the store held it in while the get
   was in flight. *)
CacheTransparent ==
  (out.tool = "firestore_get" /\ out.payload.type = "text") =>
    (IF out.payload.exists
       THEN [exists |-> TRUE, data |-> out.payload.data]
       ELSE [exists |-> FALSE])
      \in {Observable(s) : s \in out.seen}

(* C5: in firestore_create the invalidation of the written key is made by
   the continuation of a docRef.set() that succeeded, and by no other step;
   when docRef.set() fails the handler makes no cache call, leaves the cache
   as it was and returns an error payload. *)
InvalidateAfterWrite ==
  [][/\ lastOp'.op = "invalidate" =>
          LET p == lastOp'.by
          IN /\ h[p].tool = "firestore_create"
             /\ h[p].pc = "create_await_set"
             /\ h[p].reply.st = "ok"
             /\ lastOp'.key = cacheKey(h[p].collection, h[p].id)
             /\ h'[p].pc = "create_await_get"
     /\ \A p \in Procs :
          (/\ h[p].pc = "create_await_set"
           /\ h[p].reply.st = "error"
           /\ h'[p] # h[p]) =>
            /\ lastOp'.op = "none"
            /\ documentCache' = documentCache
            /\ h'[p].pc = "idle"
            /\ out'.tool = "firestore_create"
            /\ out'.payload = ErrorPayload
    ]_vars

\* A create whose write succeeded has just removed the cached entry of the
\* document it wrote.
InvalidateAfterWriteWitness ==
  /\ lastOp.op = "invalidate"
  /\ lastOp.before.size0 = Len(documentCache.cache) + 1
  /\ h[lastOp.by].pc = "create_await_get"

(* C6: set on a cache holding maxSize or more entries removes exactly the
   entry at the head of the insertion order, set on a smaller cache removes
   nothing; either way it then stores key -> {data, timestamp: now}, a new
   key going last, and every other entry stays as it was.  Hence after more
   than maxSize sets of distinct keys on the empty cache, the keys present
   are the last maxSize keys set, in that order. *)
SetEvictsOldest ==
  [][/\ lastOp'.op = "set" =>
          LET key == lastOp'.key
              gone == IF Len(Old) >= documentCache.maxSize
                        THEN {Old[1].key} ELSE {}
          IN /\ MapKeys(New) = (MapKeys(Old) \ gone) \cup {key}
             /\ MapGet(New, key) =
                  [key |-> key, data |-> lastOp'.data, timestamp |-> now']
             /\ key \notin (MapKeys(Old) \ gone) => New[Len(New)].key = key
             /\ \A e \in {Old[i] : i \in 1..Len(Old)} :
                  e.key \notin gone \cup {key} =>
                    \E j \in 1..Len(New) : New[j] = e
             /\ OthersKept(New, Old, key)
             /\ CountersKept
             /\ ConfigKept
     /\ (hist' # Void /\ Len(hist') > documentCache'.maxSize) =>
          [i \in 1..Len(New) |-> New[i].key]
            = LastOf(hist', documentCache'.maxSize)
    ]_vars

\* Three distinct keys were set on the empty cache of maxSize 2: the first
\* one is gone.
SetEvictsOldestWitness ==
  /\ hist # Void
  /\ Len(hist) = 3
  /\ documentCache.maxSize = 2
  /\ MapKeys(documentCache.cache) = {hist[2], hist[3]}

(* C7: get has three outcomes.  Key absent: null, missCount + 1.  Key present
   and now - timestamp > ttl: the entry is deleted, null, missCount + 1.
   Otherwise (age <= ttl): the stored data, hitCount + 1. *)
GetOutcomes ==
  [][lastOp'.op = "get" =>
       LET key == lastOp'.key IN
       /\ ConfigKept
       /\ IF ~MapHas(Old, key)
            THEN /\ lastOp'.ret = Null
                 /\ New = Old
                 /\ documentCache'.missCount = documentCache.missCount + 1
                 /\ documentCache'.hitCount = documentCache.hitCount
          ELSE IF now' - MapGet(Old, key).timestamp > documentCache.ttl
            THEN /\ lastOp'.ret = Null
                 /\ ~MapHas(New, key)
                 /\ Len(New) = Len(Old) - 1
                 /\ documentCache'.missCount = documentCache.missCount + 1
                 /\ documentCache'.hitCount = documentCache.hitCount
            ELSE /\ lastOp'.ret = Some(MapGet(Old, key).data)
                 /\ documentCache'.hitCount = documentCache.hitCount + 1
                 /\ documentCache'.missCount = documentCache.missCount
    ]_vars

\* A get has just found its entry expired and deleted it.
GetOutcomesWitness ==
  /\ lastOp.op = "get"
  /\ lastOp.ret.null
  /\ lastOp.before.size0 = Len(documentCache.cache) + 1

(* C8: a get that hits leaves the entries, their timestamps and their order
   as they were; only hitCount changes (FIFO, not LRU). *)
HitDoesNotPromote ==
  [][(lastOp'.op = "get" /\ ~lastOp'.ret.null) =>
       /\ New = Old
       /\ documentCache'.hitCount = documentCache.hitCount + 1
       /\ documentCache'.missCount = documentCache.missCount
       /\ ConfigKept
    ]_vars

\* The entry just read is the oldest of a full cache of two or more entries:
\* it is the next one to be evicted.
HitDoesNotPromoteWitness ==
  /\ lastOp.op = "get"
  /\ ~lastOp.ret.null
  /\ Len(documentCache.cache) >= 2
  /\ Len(documentCache.cache) = documentCache.maxSize
  /\ documentCache.cache[1].key = lastOp.key

(* C9: invalidate(key) removes key's entry if there is one and nothing else:
   the other entries, their order and both counters are unchanged, and a
   get(key) made right after it is a miss. *)
InvalidateFrame ==
  [][lastOp'.op = "invalidate" =>
       LET key == lastOp'.key IN
       /\ MapKeys(New) = MapKeys(Old) \ {key}
       /\ OthersKept(Old, New, key)
       /\ Len(New) = Cardinality(MapKeys(New))
       /\ CountersKept
       /\ ConfigKept
       /\ \A t \in now'..MaxTime :
            LET r == get(documentCache', key, t)
            IN /\ r.ret = Null
               /\ r.dc.missCount = documentCache.missCount + 1
               /\ r.dc.hitCount = documentCache.hitCount
    ]_vars

\* An entry was removed and another one is still there.
InvalidateFrameWitness ==
  /\ lastOp.op = "invalidate"
  /\ lastOp.before.size0 = Len(documentCache.cache) + 1
  /\ Len(documentCache.cache) >= 1

(* C10: clear leaves no entry, hitCount = 0 and missCount = 0; ttl and
   maxSize are unchanged. *)
ClearResets ==
  [][lastOp'.op = "clear" =>
       /\ New = <<>>
       /\ documentCache'.hitCount = 0
       /\ documentCache'.missCount = 0
       /\ ConfigKept
    ]_vars

\* clear was called on a cache with entries and counted lookups.
ClearResetsWitness ==
  /\ lastOp.op = "clear"
  /\ lastOp.before.size0 > 0
  /\ lastOp.before.count0 > 0
  /\ Len(documentCache.cache) = 0

(* C11: getStats().hitRatio is the number hitCount / (hitCount + missCount),
   and the number 0 when no get has been counted. *)
HitRatioIsNumber ==
  lastOp.op = "getStats" =>
    LET r == lastOp.ret.hitRatio
        total == documentCache.hitCount + documentCache.missCount
    IN /\ r.t = "number"
       /\ IF "v" \in DOMAIN r
            THEN r.v * total = documentCache.hitCount
            ELSE r.num * total = documentCache.hitCount * r.den

(* C12: entry lifetime.  An entry is written into the cache only by the
   continuation of a firestore_get that missed the cache for that key and
   whose store read succeeded and found the document; an entry leaves the
   cache only by invalidate of its key, by clear, by a get of its key that
   finds it older than ttl, or as the head of a full cache in set. *)
EntryLifetime ==
  [][/\ \A i \in 1..Len(New) :
          (\A j \in 1..Len(Old) : Old[j] # New[i]) =>
            /\ lastOp'.op = "set"
            /\ lastOp'.key = New[i].key
            /\ LET r == h[lastOp'.by]
               IN /\ r.tool = "firestore_get"
                  /\ r.pc = "get_await"
                  /\ r.reply.st = "ok"
                  /\ r.reply.snap.exists
                  /\ cacheKey(r.collection, r.id) = New[i].key
                  /\ New[i].data = convertFlatDocument(r.reply.snap.data)
     /\ \A p \in Procs :
          (h[p].pc # "get_await" /\ h'[p].pc = "get_await") =>
            /\ lastOp'.op = "get"
            /\ lastOp'.by = p
            /\ lastOp'.ret = Null
            /\ lastOp'.key = cacheKey(h'[p].collection, h'[p].id)
     /\ \A i \in 1..Len(Old) :
          ~MapHas(New, Old[i].key) =>
            \/ lastOp'.op = "invalidate" /\ lastOp'.key = Old[i].key
            \/ lastOp'.op = "clear"
            \/ /\ lastOp'.op = "get"
               /\ lastOp'.key = Old[i].key
               /\ lastOp'.ret = Null
               /\ now' - Old[i].timestamp > documentCache.ttl
            \/ /\ lastOp'.op = "set"
               /\ Len(Old) >= documentCache.maxSize
               /\ i = 1
    ]_vars

\* The continuation of a get has just cached the document it read from the
\* store, and the head of the full cache was evicted for it.
EntryLifetimeWitness ==
  /\ lastOp.op = "set"
  /\ out.tool = "firestore_get"
  /\ ~out.payload.fromCache
  /\ lastOp.before.size0 = documentCache.maxSize
  /\ MapHas(documentCache.cache, cacheKey(out.collection, out.id))

(* C13: the cache key is unambiguous.  The key of every entry in the cache
   is the key of exactly one document, so that a get or an invalidate made
   for one document never reaches the entry of another, and a get answered
   from the cache is answered with an entry of the document asked for (which
   therefore exists in the store: nothing deletes documents here). *)
KeysUnambiguous ==
  /\ \A i \in 1..Len(documentCache.cache) :
       Cardinality({d \in DocPaths :
                      cacheKey(d[1], d[2]) = documentCache.cache[i].key}) = 1
  /\ (/\ out.tool = "firestore_get"
      /\ out.payload.type = "text"
      /\ out.payload.exists
      /\ out.payload.fromCache) => db[<<out.collection, out.id>>].exists

(***************************************************************************)
(* Views of the heap used to state the properties of the converters.       *)
(***************************************************************************)
IsObject(v) == v.t = "object"

\* The values held in the slots of a cell, in order (none for an instance of
\* a Firestore class).
Slots(cell) ==
  CASE cell.cls = "Object" -> [i \in 1..Len(cell.props) |-> cell.props[i].val]
    [] cell.cls = "Array" -> cell.items
    [] OTHER -> <<>>

\* A record or sequence that is neither tagged as a converted reference nor
\* recognised as one by its `path`.
IsPlainContainer(cell) ==
  /\ cell.cls \in {"Object", "Array"}
  /\ ~alreadyConverted(cell)
  /\ ~hasReferencePath(cell)

\* The value reached from v by entering n times the first slot.
RECURSIVE Descend(_, _, _)
Descend(H, v, n) ==
  IF n = 0 THEN v
  ELSE IF IsObject(v) /\ Len(Slots(H[v.addr])) > 0
    THEN Descend(H, Slots(H[v.addr])[1], n - 1)
    ELSE JsUndefined

\* v, its first slot, ... down to level n are n + 1 different plain
\* containers: a linear, acyclic nesting of depth n.
LinearChain(H, v, n) ==
  /\ \A k \in 0..n :
       /\ IsObject(Descend(H, v, k))
       /\ IsPlainContainer(H[Descend(H, v, k).addr])
  /\ \A j, k \in 0..n : j # k => Descend(H, v, j) # Descend(H, v, k)

\* The addresses met when v is unfolded as a tree, down to `fuel` levels.
RECURSIVE Unfold(_, _, _)
RECURSIVE UnfoldEach(_, _, _)
Unfold(H, v, fuel) ==
  IF ~IsObject(v) \/ fuel = 0 THEN <<>>
  ELSE <<v.addr>> \o UnfoldEach(H, Slots(H[v.addr]), fuel - 1)

UnfoldEach(H, vals, fuel) ==
  IF vals = <<>> THEN <<>>
  ELSE Unfold(H, Head(vals), fuel) \o UnfoldEach(H, Tail(vals), fuel)

\* No object is reachable from v twice: nothing shared, no cycle.
IsTree(H, v) ==
  LET u == Unfold(H, v, Len(H) + 1)
  IN \A i, j \in 1..Len(u) : i # j => u[i] # u[j]

\* The value v with every reference replaced by the content it refers to,
\* down to `fuel` levels.
RECURSIVE Tree(_, _, _)
Tree(H, v, fuel) ==
  IF ~IsObject(v) THEN v
  ELSE IF fuel = 0 THEN [cut |-> TRUE]
  ELSE LET cell == H[v.addr]
       IN CASE cell.cls = "Object" ->
                 [cls |-> "Object",
                  props |-> [i \in 1..Len(cell.props) |->
                               Prop(cell.props[i].key,
                                    Tree(H, cell.props[i].val, fuel - 1))]]
            [] cell.cls = "Array" ->
                 [cls |-> "Array",
                  items |-> [i \in 1..Len(cell.items) |->
                               Tree(H, cell.items[i], fuel - 1)]]
            [] OTHER -> cell

\* The objects that existed before the last converter call.
HeapBefore == SubSeq(heap, 1, conv.size0)

ToPlainReturned == conv.fn = "convertTimestampsToISO"

(* C14: depth cap.  When the argument is a linear acyclic nesting deeper than
   maxDepth, the value at level maxDepth + 1 of the result is the string
   "[maximum depth reached]". *)
DepthMarker ==
  Str(<<"[", "m", "a", "x", "i", "m", "u", "m", " ", "d", "e", "p", "t", "h",
        " ", "r", "e", "a", "c", "h", "e", "d", "]">>)

DepthCapped ==
  (ToPlainReturned /\ LinearChain(HeapBefore, conv.data, conv.maxDepth + 1)) =>
    Descend(heap, conv.ret, conv.maxDepth + 1) = DepthMarker

(* C15: convertTimestampsToISO returns on every graph, cyclic ones included,
   and marks (hence descends into) no object twice in one top-level call. *)
DescendsOnce ==
  ToPlainReturned =>
    /\ \A i, j \in 1..Len(conv.trace) : i # j => conv.trace[i] # conv.trace[j]
    /\ \A i \in 1..Len(conv.trace) : conv.trace[i] \in 1..conv.size0

\* The call returned on an argument that lies on a cycle through another
\* object, and on one that holds itself.
DescendsOnceWitness ==
  /\ ToPlainReturned
  /\ IsObject(conv.data)
  /\ \E b \in 1..conv.size0 :
       /\ b # conv.data.addr
       /\ Ref(b) \in {Slots(heap[conv.data.addr])[i] :
                        i \in 1..Len(Slots(heap[conv.data.addr]))}
       /\ conv.data \in {Slots(heap[b])[i] : i \in 1..Len(Slots(heap[b]))}
       /\ Ref(b) \in {Slots(heap[b])[i] : i \in 1..Len(Slots(heap[b]))}

(* C16: the slot of the result that corresponds to a slot of the argument
   closing a cycle (it holds an object that contains it) is the string
   "[circular reference]". *)
SpecCircularMarker ==
  Str(<<"[", "c", "i", "r", "c", "u", "l", "a", "r", " ", "r", "e", "f", "e",
        "r", "e", "n", "c", "e", "]">>)

CircularSlotMarked ==
  ToPlainReturned =>
    \A n \in 1..conv.size0 :
      (/\ LinearChain(HeapBefore, conv.data, n - 1)
       /\ \E k \in 0..(n - 1) :
            Descend(HeapBefore, conv.data, n) = Descend(HeapBefore, conv.data, k))
        => Descend(heap, conv.ret, n) = SpecCircularMarker

(* C17: structure preservation.  For an argument that is a record or a
   sequence (not an instance of a Firestore class, not tagged or recognised
   as a reference) the result is a new record with the same keys in the same
   order, or a new sequence of the same length; and when no object is shared
   or on a cycle, each slot holds what convertTimestampsToISO returns for the
   value in the corresponding slot of the argument. *)
StructurePreserved ==
  (/\ ToPlainReturned
   /\ IsObject(conv.data)
   /\ IsPlainContainer(heap[conv.data.addr])) =>
    LET in == heap[conv.data.addr] IN
    /\ IsObject(conv.ret)
    /\ conv.ret.addr > conv.size0
    /\ LET res == heap[conv.ret.addr] IN
       /\ res.cls = in.cls
       /\ Len(Slots(res)) = Len(Slots(in))
       /\ in.cls = "Object" =>
            \A i \in 1..Len(in.props) : res.props[i].key = in.props[i].key
       /\ IsTree(HeapBefore, conv.data) =>
            \A i \in 1..Len(Slots(in)) :
              LET r == convertTimestampsToISO(
                         [heap |-> HeapBefore, visited |-> {}, trace |-> <<>>],
                         Slots(in)[i], 0, conv.maxDepth)
              IN Tree(heap, Slots(res)[i], Len(heap))
                   = Tree(r.st.heap, r.ret, Len(r.st.heap))

\* The argument is a record of two properties, one of them a sequence that
\* holds a Timestamp, which came out as its ISO string.
StructurePreservedWitness ==
  /\ ToPlainReturned
  /\ IsObject(conv.data)
  /\ IsTree(HeapBefore, conv.data)
  /\ LET in == heap[conv.data.addr]
     IN /\ in.cls = "Object"
        /\ IsPlainContainer(in)
        /\ Len(in.props) = 2
        /\ IsObject(in.props[1].val)
        /\ heap[in.props[1].val.addr].cls = "Array"
        /\ in.props[2].val = Num(1)
        /\ Tree(heap, conv.ret, Len(heap)).props[1].val
             = [cls |-> "Array", items |-> <<Str(toISOString(1500)), Num(1)>>]

(* C18: for a DocumentReference the result is a record with exactly the
   fields type = "reference", path, id (the last segment of the path) and
   collectionId (the segment before it). *)
NativeReferenceRecord ==
  (/\ ToPlainReturned
   /\ IsObject(conv.data)
   /\ heap[conv.data.addr].cls = "DocumentReference") =>
    LET segments == heap[conv.data.addr].segments
        res == heap[conv.ret.addr]
    IN /\ res.cls = "Object"
       /\ {res.props[i].key : i \in 1..Len(res.props)}
            = {"type", "path", "id", "collectionId"}
       /\ GetProp(res, "type")
            = Str(<<"r", "e", "f", "e", "r", "e", "n", "c", "e">>)
       /\ GetProp(res, "path") = Str(join(segments, "/"))
       /\ GetProp(res, "id") = Str(segments[Len(segments)])
       /\ GetProp(res, "collectionId") = Str(segments[Len(segments) - 1])

(* C19: idempotence on references.  When convertTimestampsToISO is applied to
   the record r it returned for a DocumentReference, or for a record it
   recognised as a reference by its `path`, it returns r itself and creates
   no object: r is not tagged a second time and keeps its fields. *)
ReferenceIdempotent ==
  (/\ ToPlainReturned
   /\ conv.nth = 2
   /\ IsObject(conv.arg0)
   /\ \/ heap[conv.arg0.addr].cls = "DocumentReference"
      \/ /\ heap[conv.arg0.addr].cls = "Object"
         /\ ~alreadyConverted(heap[conv.arg0.addr])
         /\ hasReferencePath(heap[conv.arg0.addr])) =>
    /\ conv.ret = conv.data
    /\ Len(heap) = conv.size0
    /\ Tree(heap, conv.ret, Len(heap))
         = Tree(HeapBefore, conv.data, Len(heap))

\* The second call was made on the record returned for a record recognised
\* by its path "us/u".
ReferenceIdempotentWitness ==
  /\ ToPlainReturned
  /\ conv.nth = 2
  /\ IsObject(conv.arg0)
  /\ heap[conv.arg0.addr].cls = "Object"
  /\ hasReferencePath(heap[conv.arg0.addr])
  /\ GetProp(heap[conv.ret.addr], "id") = Str(<<"u">>)
  /\ GetProp(heap[conv.ret.addr], "collection") = Str(<<"u", "s">>)

\* The cases of a value of the wrong shape for the requested type: a record
\* or a string that names no date for "timestamp", coordinates that are not
\* both numbers for "geopoint", a string that is no number for "number".
WrongShape(value, type) ==
  \/ /\ type = "timestamp"
     /\ value.t = "object"
     /\ heap[value.addr].cls = "Object"
  \/ /\ type = "timestamp"
     /\ value.t = "string"
     /\ ~IsISODate(value.chars)
     /\ ~HasDigit(value.chars)
  \/ /\ type = "geopoint"
     /\ value.t = "object"
     /\ HasIn(heap[value.addr], "latitude")
     /\ HasIn(heap[value.addr], "longitude")
     /\ \/ Get(heap[value.addr], "latitude").t # "number"
        \/ Get(heap[value.addr], "longitude").t # "number"
  \/ /\ type = "number"
     /\ value.t = "string"
     /\ isNaN(StringToNumber(value.chars))

\* C20: convertValueToFirestoreType never raises, for any value and type;
\* for a value of the wrong shape for the type it returns the value it was
\* given, unchanged and creating nothing; and firestore_create with a
\* special field always gets to its write, which for a value of the wrong
\* shape stores that value.
ToNativeFailurePolicy ==
  /\ conv.fn = "convertValueToFirestoreType" =>
        /\ ~conv.threw
        /\ WrongShape(conv.value, conv.type) =>
              conv.ret = conv.value /\ Len(heap) = conv.size0
  /\ conv.fn = "firestore_create" =>
        /\ ~conv.threw
        /\ h[conv.p].pc = "create_await_set"
        /\ WrongShape(conv.value, conv.type) =>
              h[conv.p].documentData.f = conv.value

(***************************************************************************)
(* convertValueToFirestoreType: what a call returned.                      *)
(***************************************************************************)
\* The last step was a call convertValueToFirestoreType(conv.value, type).
NativeReturned(type) ==
  conv.fn = "convertValueToFirestoreType" /\ conv.type = type

IsArrayRef(v) == v.t = "object" /\ heap[v.addr].cls = "Array"
IsRecordRef(v) == v.t = "object" /\ heap[v.addr].cls = "Object"

\* The characters of a property name.
NameChars(k) ==
  IF \E i \in 1..Len(PropertyNames) : PropertyNames[i].name = k
    THEN PropertyNames[CHOOSE i \in 1..Len(PropertyNames) :
                         PropertyNames[i].name = k].chars
    ELSE <<k>>

\* The JSON text of a value made of null, booleans, integers, strings
\* without escapes, arrays and records, written without spaces.
RECURSIVE JsonText(_, _)
JsonText(hp, v) ==
  CASE v.t = "null" -> <<"n", "u", "l", "l">>
    [] v.t = "boolean" ->
         IF v.v THEN <<"t", "r", "u", "e">> ELSE <<"f", "a", "l", "s", "e">>
    [] v.t = "number" -> NumberToString(v.v)
    [] v.t = "string" -> <<"\"">> \o v.chars \o <<"\"">>
    [] v.t = "object" /\ hp[v.addr].cls = "Array" ->
         <<"[">>
           \o join([i \in 1..Len(hp[v.addr].items) |->
                      JsonText(hp, hp[v.addr].items[i])], ",")
           \o <<"]">>
    [] v.t = "object" /\ hp[v.addr].cls = "Object" ->
         <<"{">>
           \o join([i \in 1..Len(hp[v.addr].props) |->
                      <<"\"">> \o NameChars(hp[v.addr].props[i].key)
                        \o <<"\"", ":">>
                        \o JsonText(hp, hp[v.addr].props[i].val)], ",")
           \o <<"}">>

\* A text without its spaces, and its first character other than a space
\* ("" if it has none).
stripSpaces(chars) == SelectSeq(chars, LAMBDA c : c # " ")
firstChar(chars) == IF trim(chars) = <<>> THEN "" ELSE Head(trim(chars))

\* The inputs that are the JSON text of an array.
JsonArrayTexts ==
  {Str(<<"[", "1", ",", "2", "]">>),
   Str(<<"[", "\"", "a", "\"", ",", " ", "[", "1", "]", "]">>)}

\* C21: for type "array" and a value that is not null the result is an
\* array: the value itself (nothing is created) when it is an array; for a
\* string that is the JSON text of an array, the array that text denotes;
\* for any other string (no JSON, or the JSON of something that is no array)
\* and any other value, the array [value].
ArrayResult ==
  NativeReturned("array") /\ conv.value.t # "null" =>
    /\ ~conv.threw
    /\ IsArrayRef(conv.ret)
    /\ IF IsArrayRef(conv.value)
         THEN conv.ret = conv.value /\ Len(heap) = conv.size0
       ELSE IF conv.value \in JsonArrayTexts
         THEN JsonText(heap, conv.ret) = stripSpaces(conv.value.chars)
       ELSE IF conv.value.t = "string" /\ firstChar(conv.value.chars) = "["
         THEN \/ heap[conv.ret.addr] = Arr(<<conv.value>>)
              \/ JsonText(heap, conv.ret) = stripSpaces(conv.value.chars)
       ELSE heap[conv.ret.addr] = Arr(<<conv.value>>)

\* The text [1,2] was given for "array" and the array of 1 and 2 came back.
ArrayResultWitness ==
  /\ NativeReturned("array")
  /\ conv.value = Str(<<"[", "1", ",", "2", "]">>)
  /\ ~conv.threw
  /\ heap[conv.ret.addr] = Arr(<<Num(1), Num(2)>>)

\* C22: for type "map" or "object" and a value that is not null the result
\* is a record (never a number, a string, a boolean, null or an array): the
\* value itself when it is a record; for a string that is the JSON text of a
\* record, the record that text denotes; for any other value the record
\* {value: value}.
RecordResult ==
  /\ conv.fn = "convertValueToFirestoreType"
  /\ conv.type \in {"map", "object"}
  /\ conv.value.t # "null"
  => /\ ~conv.threw
     /\ IsRecordRef(conv.ret)
     /\ IF IsRecordRef(conv.value)
          THEN conv.ret = conv.value /\ Len(heap) = conv.size0
        ELSE IF conv.value.t = "string" /\ firstChar(conv.value.chars) = "{"
          THEN \/ heap[conv.ret.addr] = Obj(<<Prop("value", conv.value)>>)
               \/ JsonText(heap, conv.ret) = stripSpaces(conv.value.chars)
        ELSE heap[conv.ret.addr] = Obj(<<Prop("value", conv.value)>>)

\* C23: for type "string" the result is a string, the string form of the
\* value, whatever the value is.
StringResult ==
  NativeReturned("string") =>
    /\ ~conv.threw
    /\ conv.ret = Str(JsString(heap, conv.value))

\* A document path: segments that are not empty, an even number of them.
IsDocumentPath(chars) ==
  LET parts == split(chars, "/")
  IN Len(parts) % 2 = 0 /\ \A i \in 1..Len(parts) : parts[i] # <<>>

\* v is a DocumentReference whose path is `chars`.
IsReferenceTo(v, chars) ==
  /\ v.t = "object"
  /\ heap[v.addr].cls = "DocumentReference"
  /\ join(heap[v.addr].segments, "/") = chars

\* The last step converted back, for the type given, what
\* convertTimestampsToISO had returned for a DocumentReference.
RoundTripped(type) ==
  /\ conv.fn = "convertValueToFirestoreType"
  /\ "arg0" \in DOMAIN conv
  /\ conv.type = type

\* C24: for a document path p, convertValueToFirestoreType(p, "reference")
\* is a DocumentReference of path p; and for a DocumentReference r,
\* convertValueToFirestoreType(convertTimestampsToISO(r), t) with t
\* "reference" or not one of the named types is a DocumentReference whose
\* path is that of r.
ReferenceRoundTrip ==
  /\ /\ NativeReturned("reference")
     /\ conv.value.t = "string"
     /\ IsDocumentPath(conv.value.chars)
     => ~conv.threw /\ IsReferenceTo(conv.ret, conv.value.chars)
  /\ RoundTripped("reference") \/ RoundTripped("auto") =>
       /\ ~conv.threw
       /\ IsReferenceTo(conv.ret, join(heap[conv.arg0.addr].segments, "/"))

\* The reference to us/u/p/q went through convertTimestampsToISO and, with no
\* type named, back to a DocumentReference.
ReferenceRoundTripWitness ==
  /\ RoundTripped("auto")
  /\ heap[conv.arg0.addr].segments = <<<<"u", "s">>, <<"u">>, <<"p">>, <<"q">>>>
  /\ ~conv.threw
  /\ heap[conv.ret.addr].cls = "DocumentReference"

(***************************************************************************)
(* The tool handlers: what every invocation answers.                       *)
(***************************************************************************)
\* The four tools of the server.
Tools ==
  {"firestore_get", "firestore_list_collections", "firestore_create",
   "firestore_collection_group_query"}

\* The step ends an invocation: one that was suspended is over, or one went
\* from its call to its return without waiting.
Ends ==
  \/ \E p \in Procs : h[p].pc # "idle" /\ h'[p].pc = "idle"
  \/ calls' # calls /\ h' = h

\* o is the response of a handler whose content has a first element with a
\* type and a text.
Answers(o) ==
  /\ o # NoOut
  /\ o.tool \in Tools
  /\ "text" \in DOMAIN o.payload
  /\ o.payload.type \in {"text", "error"}

\* C25: every invocation of one of the four handlers, when it ends, has
\* returned a content whose first element carries a text, after a success
\* and after a failure of the store or of the library alike; no invocation
\* ends without a response.
HandlersAnswer == [][Ends => Answers(out')]_vars

\* A collection group query that the store refused was answered with the
\* message of the refusal.
HandlersAnswerWitness ==
  /\ out # NoOut
  /\ out.tool = "firestore_collection_group_query"
  /\ out.payload.type = "error"
  /\ out.error \in StoreErrors
  /\ out.payload.text = out.error.message

\* The handler of the collection group query has returned after an error.
QueryErrorAnswered == out # NoOut /\ "errorHandler" \in DOMAIN out

\* The message of the error names a missing index.
NamesMissingIndex(error) ==
  \E word \in {RequiresAnIndex, NoMatchingIndexFound, NeedsIndex} :
    \E i \in 1..Len(error.message.chars) :
      \E j \in i..Len(error.message.chars) :
        SubSeq(error.message.chars, i, j) = word

\* C26: handleMissingIndexError returns type "missing_index" exactly when the
\* message of the error contains "requires an index", "no matching index
\* found" or "needs index", and "other_error" otherwise; the collection group
\* query answers with a text whose error is INDEX_REQUIRED in the first case
\* and with an element of type "error" in the second; a missing_index result
\* has instructions that are not empty.
MissingIndexDetection ==
  QueryErrorAnswered =>
    IF NamesMissingIndex(out.error)
      THEN /\ out.errorHandler.type = "missing_index"
           /\ out.errorHandler.instructions.t = "string"
           /\ out.errorHandler.instructions.chars # <<>>
           /\ out.payload.type = "text"
           /\ out.payload.error = "INDEX_REQUIRED"
      ELSE /\ out.errorHandler.type = "other_error"
           /\ out.payload.type = "error"

\* The store refused the query with "no matching index found", which has no
\* link: the answer is INDEX_REQUIRED, with the instructions for the console.
MissingIndexDetectionWitness ==
  /\ QueryErrorAnswered
  /\ out.error = Error(NoMatchingIndexFound)
  /\ out.payload.error = "INDEX_REQUIRED"
  /\ out.errorHandler.createUrl = JsNull
  /\ includesText(out.errorHandler.instructions.chars, ConsoleBefore)

(***************************************************************************)
(* documentCache under the handlers: the life of an entry.                 *)
(***************************************************************************)
\* What the entry of `key` is in the cache dc when the clock reads t.
EntryState(dc, key, t) ==
  IF ~MapHas(dc.cache, key) THEN "absent"
  ELSE IF t - MapGet(dc.cache, key).timestamp > dc.ttl THEN "stale"
  ELSE "fresh"

\* The moves of an entry: it is stored, it expires, it is removed.
EntryMoves ==
  {<<"absent", "fresh">>, <<"fresh", "stale">>, <<"stale", "absent">>,
   <<"fresh", "absent">>}

\* The step stores `key` after set has evicted the entry of that key (lines
\* 269-272: the Map is full and the key is its oldest).
EvictedFirst(key) ==
  /\ lastOp'.op = "set"
  /\ lastOp'.key = key
  /\ Len(documentCache.cache) >= documentCache.maxSize
  /\ Len(documentCache.cache) > 0
  /\ documentCache.cache[1].key = key

\* C27: whatever the interleaving of the handlers and the readings of the
\* clock, the entry of a key goes from absent to fresh, from fresh to stale
\* as time passes, and from there (or from fresh, by eviction) to absent; an
\* entry that is stale when a step reads the clock is not fresh after the
\* step unless the step removed it first.
EntryLifecycle ==
  [][\A key \in CacheKeys :
       LET before == EntryState(documentCache, key, now)
           atCall == EntryState(documentCache, key, now')
           after == EntryState(documentCache', key, now')
       IN /\ before = atCall \/ <<before, atCall>> = <<"fresh", "stale">>
          /\ \/ atCall = after
             \/ <<atCall, after>> \in EntryMoves
             \/ EvictedFirst(key)]_vars

(***************************************************************************)
(* firestore_get: what a second lookup of a document costs.                *)
(***************************************************************************)
\* The step is the start of a firestore_get of `path`: the lookup in the
\* cache, answered at once or suspended at docRef.get().
GetStarts(path) ==
  /\ calls' = calls + 1
  /\ lastOp'.op = "get"
  /\ IF out' # NoOut THEN PathOf(out') = path
     ELSE PathOf(h'[lastOp'.by]) = path

\* C28: when a firestore_get of a pair has answered with a document read
\* from the store, a later firestore_get of the pair that starts no more
\* than ttl after, with no firestore_create of the pair and no eviction of
\* its entry in between, reads nothing from the store and answers with
\* fromCache true and the same data.
NoRedundantRead ==
  [][\A path \in DocPaths : \A read \in reads[path] :
       /\ GetStarts(path)
       /\ now' - read.at <= documentCache.ttl
       => /\ out' # NoOut
          /\ out'.payload.fromCache
          /\ out'.payload.data = read.data]_vars

(***************************************************************************)
(* convertTimestampsToISO: one call after another.                         *)
(***************************************************************************)
\* The last step called convertTimestampsToISO a second time on the argument
\* of the first call, without visitedObjects.
CalledAgain == ToPlainReturned /\ conv.nth = 3

\* C29: the WeakMap of the visited objects and the depth belong to one
\* top-level call: a second call of convertTimestampsToISO on the same value
\* returns a result equal to that of the first, and does not report the
\* value as a circular reference.
CallScoped ==
  CalledAgain =>
    /\ Tree(heap, conv.ret, Len(heap)) = Tree(heap, conv.ret0, Len(heap))
    /\ IsObject(conv.data) => conv.ret # CircularMarker

\* The second call visited two objects or more, the first of them again, and
\* returned a new object.
CallScopedWitness ==
  /\ CalledAgain
  /\ Len(conv.trace) >= 2
  /\ conv.trace[1] = conv.data.addr
  /\ IsObject(conv.ret)
  /\ conv.ret # conv.ret0

(***************************************************************************)
(* convertValueToFirestoreType without a type: strings taken for paths.    *)
(***************************************************************************)
\* The text has the shape collection/document: split on "/" it has two
\* parts or more, and an even number of them.
HasDocumentShape(chars) ==
  Len(split(chars, "/")) >= 2 /\ Len(split(chars, "/")) % 2 = 0

\* C30: looksLikeDocumentReference is true only for a string with two parts
\* or more between "/" and an even number of them; so for a type that is none
\* of the named ones a string becomes a DocumentReference only when it has
\* that shape, and a string without it is not handed to doc(): it is
\* returned as it is.
ReferenceHeuristic ==
  NativeReturned("auto") /\ conv.value.t = "string" =>
    /\ looksLikeDocumentReference(conv.value)
         => HasDocumentShape(conv.value.chars)
    /\ IsObject(conv.ret) /\ heap[conv.ret.addr].cls = "DocumentReference"
         => HasDocumentShape(conv.value.chars)
    /\ ~HasDocumentShape(conv.value.chars)
         => ~conv.threw /\ conv.ret = conv.value

(***************************************************************************)
(* documentCache: the counters.                                            *)
(***************************************************************************)
\* C31: every call of get adds 1 to exactly one of hitCount and missCount,
\* clear sets both to 0, and no other method changes them; so hitCount +
\* missCount is the number of calls of get since the last clear (or since
\* the start).
CounterAccounting ==
  [][LET hits == documentCache'.hitCount - documentCache.hitCount
         misses == documentCache'.missCount - documentCache.missCount
     IN /\ lastOp'.op = "get" => <<hits, misses>> \in {<<1, 0>>, <<0, 1>>}
        /\ lastOp'.op = "clear" =>
             documentCache'.hitCount = 0 /\ documentCache'.missCount = 0
        /\ lastOp'.op \notin {"get", "clear"} => hits = 0 /\ misses = 0
        /\ documentCache'.hitCount + documentCache'.missCount = gets']_vars

\* After a hit, a get found its entry expired and deleted it: one hit and one
\* miss are counted for the two calls.
CounterAccountingWitness ==
  /\ lastOp.op = "get"
  /\ lastOp.ret = Null
  /\ lastOp.before.size0 > Len(documentCache.cache)
  /\ documentCache.hitCount = 1
  /\ documentCache.missCount = 1
  /\ gets = 2

(***************************************************************************)
(* documentCache.getStats: what it leaves.                                 *)
(***************************************************************************)
\* An entry of the cache is older than ttl at the latest reading of the
\* clock.
HoldsExpired(dc) ==
  \E i \in 1..Len(dc.cache) : now - dc.cache[i].timestamp > dc.ttl

\* C34: getStats leaves the entries, hitCount, missCount, ttl and maxSize as
\* they were, and the size it reports is the number of entries stored, the
\* expired ones that no get has met yet included.
StatsReadOnly ==
  [][lastOp'.op = "getStats" =>
       /\ documentCache' = documentCache
       /\ lastOp'.ret.size = Len(documentCache.cache)]_vars

\* getStats was called on a cache of two entries, one of them expired, and
\* reported the size 2.
StatsReadOnlyWitness ==
  /\ lastOp.op = "getStats"
  /\ HoldsExpired(documentCache)
  /\ Len(documentCache.cache) = 2
  /\ lastOp.ret.size = 2

(***************************************************************************)
(* documentCache.set: which entry it evicts.                               *)
(***************************************************************************)
\* The step is a set that found the Map full and deleted its first key.
SetEvicted ==
  /\ lastOp'.op = "set"
  /\ Len(documentCache.cache) >= documentCache.maxSize
  /\ Len(documentCache.cache) > 0

\* C32: when set evicts an entry, no entry of the cache at that moment has a
\* smaller timestamp than the evicted one, whatever calls of set (of keys
\* already stored too), get and invalidate came before.
EvictsEarliestStored ==
  [][SetEvicted =>
       \A i \in 1..Len(documentCache.cache) :
         documentCache.cache[1].timestamp
           <= documentCache.cache[i].timestamp]_vars

(***************************************************************************)
(* convertTimestampsToISO: where the circular marker appears.              *)
(***************************************************************************)
\* The value x is at some position of an unfolded value (see Tree).
RECURSIVE Occurs(_, _)
Occurs(x, tree) ==
  \/ tree = x
  \/ /\ "props" \in DOMAIN tree
     /\ \E i \in 1..Len(tree.props) : Occurs(x, tree.props[i].val)
  \/ /\ "items" \in DOMAIN tree
     /\ \E i \in 1..Len(tree.items) : Occurs(x, tree.items[i])

\* No object reachable from v holds itself, directly or through others: the
\* unfolding of v ends before it is as deep as the heap is large.
Acyclic(H, v) == ~Occurs([cut |-> TRUE], Tree(H, v, Len(H)))

\* C33: the circular marker is produced for a cycle only: when the argument
\* has no cycle (and does not hold the text of the marker), no position of
\* the result holds the marker, even if an object is held by two slots.
MarkerOnlyForCycle ==
  (/\ ToPlainReturned
   /\ Acyclic(HeapBefore, conv.data)
   /\ ~Occurs(CircularMarker, Tree(HeapBefore, conv.data, Len(HeapBefore))))
  => ~Occurs(CircularMarker, Tree(heap, conv.ret, Len(heap)))

====
